---- MODULE Spec2Model ----
(***************************************************************************)
(* Model of the session-scoped ingestion pipeline of src/app.py: the       *)
(* upload folder, the process-wide analysis_progress map, the request      *)
(* handlers (upload, analyze, progress, cleanup, generate-course), the      *)
(* background threads running process_files_async and the course outline   *)
(* synthesizer generate_course_structure.                                  *)
(*                                                                         *)
(* Representation notes.                                                   *)
(*  - A Python dict is a function whose DOMAIN is its key set, so a        *)
(*    missing key is a missing domain element and dict.update is Update.   *)
(*  - A string whose length matters is a sequence of runs [c, n]: n        *)
(*    copies of the character c ("ws" is a blank, "nl" a newline, any      *)
(*    other character is itself); Str gives the runs of a literal.         *)
(*  - A Python float is an exact rational [n, d] in lowest terms.          *)
(*  - An exception is the name of its class.                               *)
(***************************************************************************)
EXTENDS Integers, Sequences, FiniteSets, Bags, TLC

\* ------------------------------------------------------------------ bounds

\* At most this many files are saved into a session folder by one upload.
MaxFiles == 2

\* At most this many analysis runs are accepted for one session.
MaxRuns == 2

\* Where re-runs are studied: at most this many runs are accepted for one session,
\* of at most this many files.
MaxReruns == 3

RerunFiles == 1

\* Where scoring is studied: an extracted text has at most this many characters
\* that are not whitespace.
MaxChars == 1100

\* Where audio is studied: at most this many runs are accepted for one session,
\* and the wall clock advances by at most this many seconds.
MaxAudioRuns == 1

MaxClock == 1

\* A session of the course runs is analyzed at most this many times.
CourseRuns == 1

\* Where the duration estimate is studied: a text has at most this many words.
MaxWords == 9700

\* The session identifiers upload can generate in this model, and those it
\* generates where one session is studied alone.
Sessions == {"s1", "s2"}

OneSession == {"s1"}

\* ------------------------------------------------------------ dict helpers

\* d[k] = v (creating the key when missing).
Put(d, k, v) == [x \in DOMAIN d \cup {k} |-> IF x = k THEN v ELSE d[x]]

\* del d[k]
Del(d, k) == [x \in DOMAIN d \ {k} |-> d[x]]

\* d.update(u): every key of u is written into d, the other keys are kept.
Update(d, u) == [x \in DOMAIN d \cup DOMAIN u |-> IF x \in DOMAIN u THEN u[x] ELSE d[x]]

\* The empty dict.
EmptyDict == [x \in {} |-> x]

\* -------------------------------------------------------------- rationals

RECURSIVE Gcd(_, _)
Gcd(a, b) == IF b = 0 THEN a ELSE Gcd(b, a % b)

\* The rational a/b (a >= 0, b > 0) in lowest terms.
Rat(a, b) == LET g == Gcd(a, b) IN [n |-> a \div g, d |-> b \div g]

RatLeq(x, y) == x.n * y.d <= y.n * x.d

RatLt(x, y) == x.n * y.d < y.n * x.d

RatMin(x, y) == IF RatLeq(x, y) THEN x ELSE y

RatAdd(x, y) == Rat(x.n * y.d + y.n * x.d, x.d * y.d)

\* x / k for an integer k > 0.
RatDivInt(x, k) == Rat(x.n, x.d * k)

\* x * k for an integer k >= 0.
RatMulInt(x, k) == Rat(x.n * k, x.d)

\* x * y
RatMul(x, y) == Rat(x.n * y.n, x.d * y.d)

\* int(x // k) for an integer k > 0: the whole part of x / k.
RatFloorDiv(x, k) == x.n \div (x.d * k)

\* int(x % k) for an integer k > 0: the whole part of what x // k leaves.
RatModInt(x, k) == (x.n - RatFloorDiv(x, k) * k * x.d) \div x.d

Zero == Rat(0, 1)

\* ------------------------------------------------------------------ strings

\* len(text)
RECURSIVE StrLen(_)
StrLen(t) ==
    IF t = <<>> THEN 0
    ELSE IF Len(t) = 1 THEN t[1].n
    ELSE LET half == Len(t) \div 2
         IN StrLen(SubSeq(t, 1, half)) + StrLen(SubSeq(t, half + 1, Len(t)))

\* str.isspace() of a character class: blanks ("ws") and newlines ("nl").
IsSpace(c) == c \in {"ws", "nl"}

\* text.lstrip()
RECURSIVE LStrip(_)
LStrip(t) == IF t = <<>> THEN <<>>
             ELSE IF IsSpace(Head(t).c) THEN LStrip(Tail(t)) ELSE t

\* text.rstrip()
RECURSIVE RStrip(_)
RStrip(t) == IF t = <<>> THEN <<>>
             ELSE IF IsSpace(t[Len(t)].c) THEN RStrip(SubSeq(t, 1, Len(t) - 1)) ELSE t

\* text.strip()
Strip(t) == RStrip(LStrip(t))

\* a + b, adjacent runs of one character class merged (one string, one form).
Cat(a, b) ==
    IF a = <<>> THEN b
    ELSE IF b = <<>> THEN a
    ELSE IF a[Len(a)].c = Head(b).c
         THEN SubSeq(a, 1, Len(a) - 1)
              \o <<[c |-> Head(b).c, n |-> a[Len(a)].n + Head(b).n]>> \o Tail(b)
         ELSE a \o b

\* sep.join(parts)
RECURSIVE Join(_, _)
Join(sep, parts) ==
    IF parts = <<>> THEN <<>>
    ELSE IF Len(parts) = 1 THEN parts[1]
    ELSE Cat(Cat(parts[1], sep), Join(sep, Tail(parts)))

\* Python truthiness of a string: non-empty.
Truthy(t) == StrLen(t) > 0

\* The rendering of a small number inside a message.
NumStr(k) == CASE k = 0 -> "0" [] k = 1 -> "1" [] k = 2 -> "2" [] k = 3 -> "3"
               [] k = 4 -> "4" [] OTHER -> "many"

\* -------------------------------------------------------- character strings

\* The characters of the string literals the course generator reads or
\* writes: "ws" is a blank and "nl" a newline, any other character is itself.
Literals ==
    <<<<"\n\nAdditional Notes:\n", <<"nl", "nl", "A", "d", "d", "i", "t", "i", "o", "n", "a", "l", "ws", "N", "o", "t", "e", "s", ":", "nl">>>>,
      <<"General course content based on the provided title.", <<"G", "e", "n", "e", "r", "a", "l", "ws", "c", "o", "u", "r", "s", "e", "ws", "c", "o", "n", "t", "e", "n", "t", "ws", "b", "a", "s", "e", "d", "ws", "o", "n", "ws", "t", "h", "e", "ws", "p", "r", "o", "v", "i", "d", "e", "d", "ws", "t", "i", "t", "l", "e", ".">>>>,
      <<", ", <<",", "ws">>>>,
      <<"various topics", <<"v", "a", "r", "i", "o", "u", "s", "ws", "t", "o", "p", "i", "c", "s">>>>,
      <<"\n\n", <<"nl", "nl">>>>,
      <<".", <<".">>>>,
      <<"Matrix Methods", <<"M", "a", "t", "r", "i", "x", "ws", "M", "e", "t", "h", "o", "d", "s">>>>,
      <<"Matrix Matrix Matrix", <<"M", "a", "t", "r", "i", "x", "ws", "M", "a", "t", "r", "i", "x", "ws", "M", "a", "t", "r", "i", "x">>>>,
      <<"Work with Matrix", <<"W", "o", "r", "k", "ws", "w", "i", "t", "h", "ws", "M", "a", "t", "r", "i", "x">>>>,
      <<"  ", <<"ws", "ws">>>>,
      <<"the cat sat on the mat and the dog ran fast fast fast", <<"t", "h", "e", "ws", "c", "a", "t", "ws", "s", "a", "t", "ws", "o", "n", "ws", "t", "h", "e", "ws", "m", "a", "t", "ws", "a", "n", "d", "ws", "t", "h", "e", "ws", "d", "o", "g", "ws", "r", "a", "n", "ws", "f", "a", "s", "t", "ws", "f", "a", "s", "t", "ws", "f", "a", "s", "t">>>>,
      <<"solve the matrix problem. use the matrix method = theory.", <<"s", "o", "l", "v", "e", "ws", "t", "h", "e", "ws", "m", "a", "t", "r", "i", "x", "ws", "p", "r", "o", "b", "l", "e", "m", ".", "ws", "u", "s", "e", "ws", "t", "h", "e", "ws", "m", "a", "t", "r", "i", "x", "ws", "m", "e", "t", "h", "o", "d", "ws", "=", "ws", "t", "h", "e", "o", "r", "y", ".">>>>,
      <<"matrix notes", <<"m", "a", "t", "r", "i", "x", "ws", "n", "o", "t", "e", "s">>>>,
      <<"mathematics", <<"m", "a", "t", "h", "e", "m", "a", "t", "i", "c", "s">>>>,
      <<"calculations", <<"c", "a", "l", "c", "u", "l", "a", "t", "i", "o", "n", "s">>>>,
      <<"formulas", <<"f", "o", "r", "m", "u", "l", "a", "s">>>>,
      <<"methods", <<"m", "e", "t", "h", "o", "d", "s">>>>,
      <<"techniques", <<"t", "e", "c", "h", "n", "i", "q", "u", "e", "s">>>>,
      <<"procedures", <<"p", "r", "o", "c", "e", "d", "u", "r", "e", "s">>>>,
      <<"problem-solving", <<"p", "r", "o", "b", "l", "e", "m", "-", "s", "o", "l", "v", "i", "n", "g">>>>,
      <<"optimization", <<"o", "p", "t", "i", "m", "i", "z", "a", "t", "i", "o", "n">>>>,
      <<"solutions", <<"s", "o", "l", "u", "t", "i", "o", "n", "s">>>>,
      <<"fundamentals", <<"f", "u", "n", "d", "a", "m", "e", "n", "t", "a", "l", "s">>>>,
      <<"principles", <<"p", "r", "i", "n", "c", "i", "p", "l", "e", "s">>>>,
      <<"applications", <<"a", "p", "p", "l", "i", "c", "a", "t", "i", "o", "n", "s">>>>,
      <<"algorithm", <<"a", "l", "g", "o", "r", "i", "t", "h", "m">>>>,
      <<"application", <<"a", "p", "p", "l", "i", "c", "a", "t", "i", "o", "n">>>>,
      <<"approach", <<"a", "p", "p", "r", "o", "a", "c", "h">>>>,
      <<"calculation", <<"c", "a", "l", "c", "u", "l", "a", "t", "i", "o", "n">>>>,
      <<"case", <<"c", "a", "s", "e">>>>,
      <<"concept", <<"c", "o", "n", "c", "e", "p", "t">>>>,
      <<"define", <<"d", "e", "f", "i", "n", "e">>>>,
      <<"definition", <<"d", "e", "f", "i", "n", "i", "t", "i", "o", "n">>>>,
      <<"equation", <<"e", "q", "u", "a", "t", "i", "o", "n">>>>,
      <<"example", <<"e", "x", "a", "m", "p", "l", "e">>>>,
      <<"exercise", <<"e", "x", "e", "r", "c", "i", "s", "e">>>>,
      <<"formula", <<"f", "o", "r", "m", "u", "l", "a">>>>,
      <<"function", <<"f", "u", "n", "c", "t", "i", "o", "n">>>>,
      <<"fundamental", <<"f", "u", "n", "d", "a", "m", "e", "n", "t", "a", "l">>>>,
      <<"implement", <<"i", "m", "p", "l", "e", "m", "e", "n", "t">>>>,
      <<"instance", <<"i", "n", "s", "t", "a", "n", "c", "e">>>>,
      <<"maximize", <<"m", "a", "x", "i", "m", "i", "z", "e">>>>,
      <<"means", <<"m", "e", "a", "n", "s">>>>,
      <<"method", <<"m", "e", "t", "h", "o", "d">>>>,
      <<"minimize", <<"m", "i", "n", "i", "m", "i", "z", "e">>>>,
      <<"parameter", <<"p", "a", "r", "a", "m", "e", "t", "e", "r">>>>,
      <<"practice", <<"p", "r", "a", "c", "t", "i", "c", "e">>>>,
      <<"principle", <<"p", "r", "i", "n", "c", "i", "p", "l", "e">>>>,
      <<"problem", <<"p", "r", "o", "b", "l", "e", "m">>>>,
      <<"procedure", <<"p", "r", "o", "c", "e", "d", "u", "r", "e">>>>,
      <<"question", <<"q", "u", "e", "s", "t", "i", "o", "n">>>>,
      <<"refers to", <<"r", "e", "f", "e", "r", "s", "ws", "t", "o">>>>,
      <<"scenario", <<"s", "c", "e", "n", "a", "r", "i", "o">>>>,
      <<"solution", <<"s", "o", "l", "u", "t", "i", "o", "n">>>>,
      <<"solve", <<"s", "o", "l", "v", "e">>>>,
      <<"task", <<"t", "a", "s", "k">>>>,
      <<"technique", <<"t", "e", "c", "h", "n", "i", "q", "u", "e">>>>,
      <<"theory", <<"t", "h", "e", "o", "r", "y">>>>,
      <<"use", <<"u", "s", "e">>>>,
      <<"variable", <<"v", "a", "r", "i", "a", "b", "l", "e">>>>,
      <<"a", <<"a">>>>,
      <<"about", <<"a", "b", "o", "u", "t">>>>,
      <<"above", <<"a", "b", "o", "v", "e">>>>,
      <<"after", <<"a", "f", "t", "e", "r">>>>,
      <<"again", <<"a", "g", "a", "i", "n">>>>,
      <<"against", <<"a", "g", "a", "i", "n", "s", "t">>>>,
      <<"all", <<"a", "l", "l">>>>,
      <<"am", <<"a", "m">>>>,
      <<"among", <<"a", "m", "o", "n", "g">>>>,
      <<"an", <<"a", "n">>>>,
      <<"and", <<"a", "n", "d">>>>,
      <<"any", <<"a", "n", "y">>>>,
      <<"are", <<"a", "r", "e">>>>,
      <<"as", <<"a", "s">>>>,
      <<"at", <<"a", "t">>>>,
      <<"be", <<"b", "e">>>>,
      <<"been", <<"b", "e", "e", "n">>>>,
      <<"before", <<"b", "e", "f", "o", "r", "e">>>>,
      <<"behind", <<"b", "e", "h", "i", "n", "d">>>>,
      <<"being", <<"b", "e", "i", "n", "g">>>>,
      <<"below", <<"b", "e", "l", "o", "w">>>>,
      <<"beneath", <<"b", "e", "n", "e", "a", "t", "h">>>>,
      <<"beside", <<"b", "e", "s", "i", "d", "e">>>>,
      <<"between", <<"b", "e", "t", "w", "e", "e", "n">>>>,
      <<"beyond", <<"b", "e", "y", "o", "n", "d">>>>,
      <<"both", <<"b", "o", "t", "h">>>>,
      <<"but", <<"b", "u", "t">>>>,
      <<"by", <<"b", "y">>>>,
      <<"can", <<"c", "a", "n">>>>,
      <<"concerning", <<"c", "o", "n", "c", "e", "r", "n", "i", "n", "g">>>>,
      <<"could", <<"c", "o", "u", "l", "d">>>>,
      <<"despite", <<"d", "e", "s", "p", "i", "t", "e">>>>,
      <<"did", <<"d", "i", "d">>>>,
      <<"do", <<"d", "o">>>>,
      <<"does", <<"d", "o", "e", "s">>>>,
      <<"doing", <<"d", "o", "i", "n", "g">>>>,
      <<"down", <<"d", "o", "w", "n">>>>,
      <<"during", <<"d", "u", "r", "i", "n", "g">>>>,
      <<"each", <<"e", "a", "c", "h">>>>,
      <<"few", <<"f", "e", "w">>>>,
      <<"for", <<"f", "o", "r">>>>,
      <<"from", <<"f", "r", "o", "m">>>>,
      <<"further", <<"f", "u", "r", "t", "h", "e", "r">>>>,
      <<"had", <<"h", "a", "d">>>>,
      <<"has", <<"h", "a", "s">>>>,
      <<"have", <<"h", "a", "v", "e">>>>,
      <<"having", <<"h", "a", "v", "i", "n", "g">>>>,
      <<"here", <<"h", "e", "r", "e">>>>,
      <<"how", <<"h", "o", "w">>>>,
      <<"i", <<"i">>>>,
      <<"in", <<"i", "n">>>>,
      <<"including", <<"i", "n", "c", "l", "u", "d", "i", "n", "g">>>>,
      <<"inside", <<"i", "n", "s", "i", "d", "e">>>>,
      <<"into", <<"i", "n", "t", "o">>>>,
      <<"is", <<"i", "s">>>>,
      <<"like", <<"l", "i", "k", "e">>>>,
      <<"may", <<"m", "a", "y">>>>,
      <<"me", <<"m", "e">>>>,
      <<"might", <<"m", "i", "g", "h", "t">>>>,
      <<"more", <<"m", "o", "r", "e">>>>,
      <<"most", <<"m", "o", "s", "t">>>>,
      <<"must", <<"m", "u", "s", "t">>>>,
      <<"my", <<"m", "y">>>>,
      <<"myself", <<"m", "y", "s", "e", "l", "f">>>>,
      <<"no", <<"n", "o">>>>,
      <<"nor", <<"n", "o", "r">>>>,
      <<"not", <<"n", "o", "t">>>>,
      <<"of", <<"o", "f">>>>,
      <<"off", <<"o", "f", "f">>>>,
      <<"on", <<"o", "n">>>>,
      <<"once", <<"o", "n", "c", "e">>>>,
      <<"only", <<"o", "n", "l", "y">>>>,
      <<"or", <<"o", "r">>>>,
      <<"other", <<"o", "t", "h", "e", "r">>>>,
      <<"our", <<"o", "u", "r">>>>,
      <<"ours", <<"o", "u", "r", "s">>>>,
      <<"ourselves", <<"o", "u", "r", "s", "e", "l", "v", "e", "s">>>>,
      <<"out", <<"o", "u", "t">>>>,
      <<"outside", <<"o", "u", "t", "s", "i", "d", "e">>>>,
      <<"over", <<"o", "v", "e", "r">>>>,
      <<"own", <<"o", "w", "n">>>>,
      <<"same", <<"s", "a", "m", "e">>>>,
      <<"shall", <<"s", "h", "a", "l", "l">>>>,
      <<"should", <<"s", "h", "o", "u", "l", "d">>>>,
      <<"since", <<"s", "i", "n", "c", "e">>>>,
      <<"so", <<"s", "o">>>>,
      <<"some", <<"s", "o", "m", "e">>>>,
      <<"such", <<"s", "u", "c", "h">>>>,
      <<"than", <<"t", "h", "a", "n">>>>,
      <<"that", <<"t", "h", "a", "t">>>>,
      <<"the", <<"t", "h", "e">>>>,
      <<"then", <<"t", "h", "e", "n">>>>,
      <<"there", <<"t", "h", "e", "r", "e">>>>,
      <<"these", <<"t", "h", "e", "s", "e">>>>,
      <<"this", <<"t", "h", "i", "s">>>>,
      <<"those", <<"t", "h", "o", "s", "e">>>>,
      <<"through", <<"t", "h", "r", "o", "u", "g", "h">>>>,
      <<"throughout", <<"t", "h", "r", "o", "u", "g", "h", "o", "u", "t">>>>,
      <<"to", <<"t", "o">>>>,
      <<"too", <<"t", "o", "o">>>>,
      <<"towards", <<"t", "o", "w", "a", "r", "d", "s">>>>,
      <<"under", <<"u", "n", "d", "e", "r">>>>,
      <<"until", <<"u", "n", "t", "i", "l">>>>,
      <<"up", <<"u", "p">>>>,
      <<"upon", <<"u", "p", "o", "n">>>>,
      <<"very", <<"v", "e", "r", "y">>>>,
      <<"was", <<"w", "a", "s">>>>,
      <<"we", <<"w", "e">>>>,
      <<"were", <<"w", "e", "r", "e">>>>,
      <<"what", <<"w", "h", "a", "t">>>>,
      <<"when", <<"w", "h", "e", "n">>>>,
      <<"where", <<"w", "h", "e", "r", "e">>>>,
      <<"which", <<"w", "h", "i", "c", "h">>>>,
      <<"whichever", <<"w", "h", "i", "c", "h", "e", "v", "e", "r">>>>,
      <<"who", <<"w", "h", "o">>>>,
      <<"whoever", <<"w", "h", "o", "e", "v", "e", "r">>>>,
      <<"whom", <<"w", "h", "o", "m">>>>,
      <<"whomever", <<"w", "h", "o", "m", "e", "v", "e", "r">>>>,
      <<"whose", <<"w", "h", "o", "s", "e">>>>,
      <<"why", <<"w", "h", "y">>>>,
      <<"will", <<"w", "i", "l", "l">>>>,
      <<"with", <<"w", "i", "t", "h">>>>,
      <<"within", <<"w", "i", "t", "h", "i", "n">>>>,
      <<"without", <<"w", "i", "t", "h", "o", "u", "t">>>>,
      <<"would", <<"w", "o", "u", "l", "d">>>>,
      <<"you", <<"y", "o", "u">>>>,
      <<"your", <<"y", "o", "u", "r">>>>,
      <<"yours", <<"y", "o", "u", "r", "s">>>>,
      <<"yourself", <<"y", "o", "u", "r", "s", "e", "l", "f">>>>,
      <<"yourselves", <<"y", "o", "u", "r", "s", "e", "l", "v", "e", "s">>>>>>

\* literal -> its characters
Spelling ==
    [w \in {Literals[j][1] : j \in 1..Len(Literals)} |->
        Literals[CHOOSE j \in 1..Len(Literals) : Literals[j][1] = w][2]]

\* The i-th smallest element of a set of numbers.
Nth(S, i) == CHOOSE x \in S : Cardinality({y \in S : y < x}) = i - 1

\* The elements of a list at the positions keep, in order.
Pick(list, keep) == [i \in 1..Cardinality(keep) |-> list[Nth(keep, i)]]

\* Runs brought to the one form of their string: neighbours of one character
\* merged. The halves are merged separately to keep the evaluation shallow.
RECURSIVE Norm(_)
Norm(runs) ==
    IF Len(runs) <= 1 THEN runs
    ELSE LET half == Len(runs) \div 2
         IN Cat(Norm(SubSeq(runs, 1, half)), Norm(SubSeq(runs, half + 1, Len(runs))))

\* A string given by its characters, as runs.
Runs(chars) == Norm([j \in 1..Len(chars) |-> [c |-> chars[j], n |-> 1]])

\* literal -> the string it denotes
Strings == [w \in DOMAIN Spelling |-> Runs(Spelling[w])]

\* The string a literal of the source denotes.
Str(literal) == IF literal = "" THEN <<>> ELSE Strings[literal]

Lowercase == <<"a", "b", "c", "d", "e", "f", "g", "h", "i", "j", "k", "l", "m",
               "n", "o", "p", "q", "r", "s", "t", "u", "v", "w", "x", "y", "z">>

Uppercase == <<"A", "B", "C", "D", "E", "F", "G", "H", "I", "J", "K", "L", "M",
               "N", "O", "P", "Q", "R", "S", "T", "U", "V", "W", "X", "Y", "Z">>

Digits == <<"0", "1", "2", "3", "4", "5", "6", "7", "8", "9">>

Alnum == {Lowercase[j] : j \in 1..26} \cup {Uppercase[j] : j \in 1..26}
             \cup {Digits[j] : j \in 1..10}

\* c.isalnum()
IsAlnum(c) == c \in Alnum

ToLower == [c \in {Uppercase[j] : j \in 1..26} |->
              Lowercase[CHOOSE j \in 1..26 : c = Uppercase[j]]]

ToUpper == [c \in {Lowercase[j] : j \in 1..26} |->
              Uppercase[CHOOSE j \in 1..26 : c = Lowercase[j]]]

\* c.lower() and c.upper() of one character
LowerChar(c) == IF c \in DOMAIN ToLower THEN ToLower[c] ELSE c

UpperChar(c) == IF c \in DOMAIN ToUpper THEN ToUpper[c] ELSE c

\* text.lower()
Lower(text) == Norm([j \in 1..Len(text) |-> [c |-> LowerChar(text[j].c), n |-> text[j].n]])

\* text[:k]
Take(text, k) ==
    LET upto(m) == StrLen(SubSeq(text, 1, m))
        whole == CHOOSE m \in 0..Len(text) :
                    upto(m) <= k /\ (m = Len(text) \/ upto(m + 1) > k)
    IN IF whole < Len(text) /\ upto(whole) < k
       THEN Append(SubSeq(text, 1, whole), [c |-> text[whole + 1].c, n |-> k - upto(whole)])
       ELSE SubSeq(text, 1, whole)

\* text[1:]
Rest(text) ==
    IF text = <<>> THEN <<>>
    ELSE IF Head(text).n > 1
         THEN <<[c |-> Head(text).c, n |-> Head(text).n - 1]>> \o Tail(text)
         ELSE Tail(text)

\* text.capitalize(): the first character in upper case, the others in lower case
Capitalize(text) ==
    IF text = <<>> THEN <<>>
    ELSE Cat(<<[c |-> UpperChar(Head(text).c), n |-> 1]>>, Lower(Rest(text)))

\* pattern in text
Contains(text, pattern) ==
    LET m == Len(pattern)
        covers(run, p) == run.c = p.c /\ run.n >= p.n
    IN \/ m = 0
       \/ \E j \in 1..(Len(text) - m + 1) :
            /\ covers(text[j], pattern[1])
            /\ covers(text[j + m - 1], pattern[m])
            /\ \A i \in 2..(m - 1) : text[j + i - 1] = pattern[i]

\* any(word in text for word in words)
ContainsAny(text, words) == \E word \in words : Contains(text, Str(word))

\* text.split(): the maximal pieces without whitespace
Split(text) ==
    LET inside(j) == j \in 1..Len(text) /\ ~IsSpace(text[j].c)
        starts == {j \in 1..Len(text) : inside(j) /\ ~inside(j - 1)}
        ends == {j \in 1..Len(text) : inside(j) /\ ~inside(j + 1)}
    IN [i \in 1..Cardinality(starts) |-> SubSeq(text, Nth(starts, i), Nth(ends, i))]

\* text.split(ch) for one character ch
RECURSIVE SplitChar(_, _)
SplitChar(text, ch) ==
    IF \A j \in 1..Len(text) : text[j].c # ch THEN <<text>>
    ELSE LET k == CHOOSE k \in 1..Len(text) :
                     text[k].c = ch /\ \A j \in 1..(k - 1) : text[j].c # ch
         IN <<SubSeq(text, 1, k - 1)>> \o [j \in 1..(text[k].n - 1) |-> <<>>]
            \o SplitChar(SubSeq(text, k + 1, Len(text)), ch)

\* text.split('\n\n'): every two newlines in a row separate, a third stays
RECURSIVE SplitBlankLines(_)
SplitBlankLines(text) ==
    LET breaks(j) == text[j].c = "nl" /\ text[j].n >= 2
    IN IF \A j \in 1..Len(text) : ~breaks(j) THEN <<text>>
       ELSE LET k == CHOOSE k \in 1..Len(text) :
                        breaks(k) /\ \A j \in 1..(k - 1) : ~breaks(j)
                left == IF text[k].n % 2 = 1 THEN <<[c |-> "nl", n |-> 1]>> ELSE <<>>
            IN <<SubSeq(text, 1, k - 1)>> \o [j \in 1..((text[k].n \div 2) - 1) |-> <<>>]
               \o SplitBlankLines(left \o SubSeq(text, k + 1, Len(text)))

\* str(k) of a natural number
RECURSIVE Dec(_)
Dec(k) ==
    IF k < 10 THEN <<[c |-> Digits[k + 1], n |-> 1]>>
    ELSE Cat(Dec(k \div 10), <<[c |-> Digits[(k % 10) + 1], n |-> 1]>>)

\* f"{k:,}": the digits in groups of three
RECURSIVE Grouped(_)
Grouped(k) ==
    IF k < 1000 THEN Dec(k)
    ELSE LET low == k % 1000
             three == Cat(Cat(Dec(low \div 100), Dec((low \div 10) % 10)), Dec(low % 10))
         IN Cat(Cat(Grouped(k \div 1000), <<[c |-> ",", n |-> 1]>>), three)

\* An f-string: the template as the source writes it and the values of its
\* holes in order. Templates that differ start with different words, so two
\* formatted strings are equal exactly when template and values are.
Fmt(template, args) == [template |-> template, args |-> args]

\* ------------------------------------------------------------ file contents

\* The names a session folder can hold, in the order os.listdir reports them.
FileNames == <<"blank.png", "notes.txt", "scan.pdf">>

\* What the extraction service returns for a file when it succeeds.
ExtractedText(filename) ==
    CASE filename = "notes.txt" -> <<[c |-> "a", n |-> 1200]>>
      [] filename = "scan.pdf"  -> <<[c |-> "ws", n |-> 2], [c |-> "b", n |-> 300]>>
      [] OTHER                  -> <<[c |-> "ws", n |-> 4]>>

\* Every listing of at most k names of FileNames, in listdir order.
Listings(k) ==
    LET n == Len(FileNames)
        pick(S) == [j \in 1..Cardinality(S) |->
                      FileNames[CHOOSE x \in S : Cardinality({y \in S : y < x}) = j - 1]]
    IN {pick(S) : S \in {T \in SUBSET (1..n) : Cardinality(T) <= k}}

ALLOWED_DOCUMENT_EXTENSIONS == {"txt", "pdf", "docx", "png", "jpg", "jpeg", "bmp"}

ALLOWED_AUDIO_EXTENSIONS == {"mp3", "wav", "m4a"}

\* filename.rsplit('.', 1)[1].lower() for the names of this model.
Extension(filename) ==
    CASE filename = "notes.txt" -> "txt"
      [] filename = "scan.pdf"  -> "pdf"
      [] filename = "blank.png" -> "png"
      [] filename = "talk.mp3"  -> "mp3"
      [] filename = "talk_converted.wav" -> "wav"
      [] filename = "talk_converted_converted.wav" -> "wav"
      [] filename = "talk_converted_converted_converted.wav" -> "wav"
      [] filename = ".pdf"      -> "pdf"
      [] OTHER                  -> ""

\* werkzeug's secure_filename for the names of this model: it drops the
\* characters that are not ASCII letters, digits, '_', '-' or '.', and then the
\* dots and underscores at either end. A name that is nothing but its extension
\* once the other characters are dropped (".pdf" here, or any name written
\* without ASCII letters before the dot) is saved under the bare extension.
secure_filename(filename) ==
    CASE filename = ".pdf" -> "pdf"
      [] OTHER             -> filename

get_file_type(filename) ==
    IF Extension(filename) \in ALLOWED_DOCUMENT_EXTENSIONS THEN "document"
    ELSE IF Extension(filename) \in ALLOWED_AUDIO_EXTENSIONS THEN "audio"
    ELSE "None"

\* ------------------------------------------------------------------ scoring

calculate_extraction_score(content) ==
    IF ~Truthy(content) \/ ~Truthy(Strip(content)) THEN Zero
    ELSE LET total_chars == StrLen(Strip(content))
         IN IF total_chars > 0
            THEN RatMin(Rat(100, 1), RatMulInt(Rat(total_chars, 1000), 100))
            ELSE Zero

\* The buckets, had the thresholds been strict.
get_score_status_Strict(score) ==
    IF RatLt(Rat(80, 1), score) THEN "green"
    ELSE IF RatLt(Rat(30, 1), score) THEN "yellow"
    ELSE "red"

get_score_status(score) ==
    IF RatLeq(Rat(80, 1), score) THEN "green"
    ELSE IF RatLeq(Rat(30, 1), score) THEN "yellow"
    ELSE "red"

\* ------------------------------------------------------------------- state

VARIABLES
    folder,             \* uploads/<session_id>: session id -> listing of its files
    analysis_progress,  \* the process-wide dict session id -> AnalysisState
    threads,            \* the bag of the locals of the background threads running
    launched,           \* session id -> the number of runs started for it so far
    issued,             \* session id uuid4 generated -> whether its upload was accepted
    analyzing,          \* session id -> where an analyze handler in flight stands
    cleaning,           \* the session ids with a cleanup handler past its rmtree
    reply,              \* the response returned by this step's handler, if any
    gcs,                \* the storage bucket: blob name -> the audio uploaded under it
    clock,              \* int(time.time()), the second the wall clock shows
    remembered          \* history: one outline returned earlier, with its inputs

vars == <<folder, analysis_progress, threads, launched, issued, analyzing,
          cleaning, reply, gcs, clock, remembered>>

\* No handler returned in this step.
NoReply == [op |-> "none"]

Response(op, sid, code, body) == [op |-> op, sid |-> sid, code |-> code, body |-> body]

\* The value of an 'error' field that holds None.
None == "None"

\* ----------------------------------------------------- orchestrator, pure part

\* The dict analyze_files stores for a new run.
InitialState(session_id) ==
    [status |-> "starting", progress |-> 0, message |-> <<"Initializing analysis...">>,
     results |-> <<>>, overall_score |-> Zero, generated_title |-> <<>>,
     error |-> None, session_id |-> session_id]

\* The test of analyze_files, had it been written against 'starting'.
AlreadyInProgress_Starting(store, session_id) ==
    session_id \in DOMAIN store /\ store[session_id].status = "starting"

\* analyze_files' test "analysis is already in progress".
AlreadyInProgress(store, session_id) ==
    session_id \in DOMAIN store /\ store[session_id].status = "processing"

\* The progress, had the loop counted the file it is at as done.
FileProgress_FromOne(i, total_files) == ((i + 1) * 80) \div total_files

\* int((i / total_files) * 80)
FileProgress(i, total_files) == (i * 80) \div total_files

\* The FileResult of a file whose extraction returned content.
SuccessResult(filename, content) ==
    LET score == calculate_extraction_score(content)
    IN [filename |-> filename, file_type |-> get_file_type(filename), content |-> content,
        score |-> score, status |-> get_score_status(score)]

\* The FileResult of a file whose extraction raised e.
ErrorResult(filename, e) ==
    [filename |-> filename, file_type |-> get_file_type(filename), content |-> <<>>,
     score |-> Zero, status |-> "error", error |-> e]

\* [r['score'] for r in file_results if r['score'] > 0]
RECURSIVE ValidScores(_)
ValidScores(file_results) ==
    IF file_results = <<>> THEN <<>>
    ELSE IF RatLt(Zero, Head(file_results).score)
         THEN <<Head(file_results).score>> \o ValidScores(Tail(file_results))
         ELSE ValidScores(Tail(file_results))

\* sum(scores)
RECURSIVE RatSum(_)
RatSum(scores) == IF scores = <<>> THEN Zero ELSE RatAdd(Head(scores), RatSum(Tail(scores)))

\* The overall score, had the mean been taken over all the files.
OverallScore_AllFiles(file_results) ==
    IF file_results # <<>>
    THEN RatDivInt(RatSum(ValidScores(file_results)), Len(file_results))
    ELSE Zero

\* The overall score of a run.
OverallScore(file_results) ==
    IF file_results # <<>>
    THEN LET valid_scores == ValidScores(file_results)
         IN IF valid_scores # <<>>
            THEN RatDivInt(RatSum(valid_scores), Len(valid_scores))
            ELSE Zero
    ELSE Zero

\* The separator, had it been a single line break.
Separator_SingleNewline == <<[c |-> "nl", n |-> 1]>>

\* The separator of the aggregated text: a blank line.
Separator == <<[c |-> "nl", n |-> 2]>>

\* The dict a run merges into its AnalysisState when it completes.
\* The final update, had it left the status as it was.
CompletedUpdate_StatusKept(session_id, file_results, all_content) ==
    [progress |-> 100,
     message |-> <<"Analysis completed successfully">>,
     results |-> file_results, overall_score |-> OverallScore(file_results),
     all_content |-> IF all_content # <<>> THEN Join(Separator, all_content) ELSE <<>>,
     session_id |-> session_id]

CompletedUpdate(session_id, file_results, all_content) ==
    [status |-> "completed", progress |-> 100,
     message |-> <<"Analysis completed successfully">>,
     results |-> file_results, overall_score |-> OverallScore(file_results),
     all_content |-> IF all_content # <<>> THEN Join(Separator, all_content) ELSE <<>>,
     session_id |-> session_id]

\* The error dict, had it set progress to 100 like the completed one.
ErrorUpdate_Hundred(e) ==
    [status |-> "error", progress |-> 100, message |-> <<"Analysis failed: ", e>>,
     error |-> e]

\* The dict a run merges into its AnalysisState when a fault escapes the loop.
ErrorUpdate(e) ==
    [status |-> "error", progress |-> 0, message |-> <<"Analysis failed: ", e>>,
     error |-> e]

\* ------------------------------------------------ orchestrator, thread state

\* The locals of a thread that has just been started on process_files_async.
NewThread(session_id) ==
    [session_id |-> session_id, pc |-> "start", files |-> <<>>, i |-> 0,
     file_results |-> <<>>, all_content |-> <<>>, exc |-> None,
     uri |-> None, job |-> None, done |-> FALSE]

\* An exception e leaves the body of the outer try for its except clause.
Raise(t, e) == [t EXCEPT !.pc = "except", !.exc = e]

\* The loop body, had it no try/except of its own: a raising extraction leaves
\* the loop for the outer except clause.
ProcessFile_NoIsolation(t, filename, raised, content) ==
    IF get_file_type(filename) = "None"
    THEN [t EXCEPT !.i = @ + 1]
    ELSE IF raised
    THEN Raise(t, "ExtractionError")
    ELSE [t EXCEPT !.i = @ + 1,
                   !.file_results = Append(@, SuccessResult(filename, content)),
                   !.all_content = IF Truthy(content) /\ Truthy(Strip(content))
                                   THEN Append(@, content) ELSE @]

\* One pass of the per-file loop body after the progress update: the extraction
\* (raised tells whether it raised, content is what it returned otherwise), the
\* scoring and the appends.
ProcessFile(t, filename, raised, content) ==
    IF get_file_type(filename) = "None"
    THEN [t EXCEPT !.i = @ + 1]
    ELSE IF raised
    THEN [t EXCEPT !.i = @ + 1,
                   !.file_results = Append(@, ErrorResult(filename, "ExtractionError"))]
    ELSE [t EXCEPT !.i = @ + 1,
                   !.file_results = Append(@, SuccessResult(filename, content)),
                   !.all_content = IF Truthy(content) /\ Truthy(Strip(content))
                                   THEN Append(@, content) ELSE @]

\* The file the loop of a run is at (none once the loop is over).
CurrentFile(t) == IF t.i < Len(t.files) THEN t.files[t.i + 1] ELSE ""

\* The threads with t taken out, and with t replaced by its next state.
Without(t) == threads (-) SetToBag({t})

Becomes(t, next) == Without(t) (+) SetToBag({next})

\* The number of active runs of a session: launched, and neither returned nor dead.
ActiveRuns(session_id) ==
    BagCardinality([t \in {u \in BagToSet(threads) : u.session_id = session_id}
                      |-> threads[t]])

\* ------------------------------------------------------------------- Init

Init ==
    /\ folder = EmptyDict
    /\ analysis_progress = EmptyDict
    /\ threads = EmptyBag
    /\ launched = [s \in Sessions |-> 0]
    /\ issued = EmptyDict
    /\ analyzing = [s \in Sessions |-> "idle"]
    /\ cleaning = {}
    /\ reply = NoReply
    /\ gcs = EmptyDict
    /\ clock = 0
    /\ remembered = <<>>

\* ------------------------------------------------------------------ upload

\* upload_files, had it also stored a not-yet-started AnalysisState for the session.
Upload_CreatesState(s, listing, accepted) ==
    /\ s \notin DOMAIN issued
    /\ analyzing[s] = "idle" /\ s \notin cleaning
    /\ accepted <=> Len(listing) >= 1
    /\ issued' = Put(issued, s, accepted)
    /\ folder' = Put(folder, s, listing)
    /\ analysis_progress' =
          Put(analysis_progress, s, [InitialState(s) EXCEPT !.status = "not_started"])
    /\ reply' = IF accepted
                THEN Response("upload", s, 200, [session_id |-> s, files |-> listing])
                ELSE Response("upload", s, 400, [error |-> <<"Unsupported file type">>])
    /\ UNCHANGED <<threads, launched, analyzing, cleaning,
                   gcs, clock, remembered>>

\* upload_files: a fresh session id and its folder. An accepted upload saved at
\* least one file; a rejected one (unsupported type, file too large) returns 400
\* and leaves the folder with the files saved before the offending one, which in
\* this model is the first file of the request. The id is fresh: uuid4 has not
\* generated it before, and no request in flight carries it.
Upload(s, listing, accepted) ==
    /\ s \notin DOMAIN issued
    /\ analyzing[s] = "idle" /\ s \notin cleaning
    /\ accepted <=> Len(listing) >= 1
    /\ issued' = Put(issued, s, accepted)
    /\ folder' = Put(folder, s, listing)
    /\ reply' = IF accepted
                THEN Response("upload", s, 200, [session_id |-> s, files |-> listing])
                ELSE Response("upload", s, 400, [error |-> <<"Unsupported file type">>])
    /\ UNCHANGED <<analysis_progress, threads, launched, analyzing, cleaning,
                   gcs, clock, remembered>>

\* ----------------------------------------------------------------- analyze

\* analyze_files, had it gone on without testing that the session folder exists.
AnalyzeCheckFolder_NoTest(s, maxRuns) ==
    /\ analyzing[s] = "idle"
    /\ launched[s] < maxRuns
    /\ analyzing' = [analyzing EXCEPT ![s] = "folder_ok"]
    /\ reply' = NoReply
    /\ UNCHANGED <<folder, analysis_progress, threads, launched, issued, cleaning,
                   gcs, clock, remembered>>

\* analyze_files up to the session-folder test. A request is issued only while
\* fewer than maxRuns runs have been launched for the session.
AnalyzeCheckFolder(s, maxRuns) ==
    /\ analyzing[s] = "idle"
    /\ launched[s] < maxRuns
    /\ IF s \notin DOMAIN folder
       THEN /\ reply' = Response("analyze", s, 404, [error |-> <<"Session not found">>])
            /\ UNCHANGED analyzing
       ELSE /\ analyzing' = [analyzing EXCEPT ![s] = "folder_ok"]
            /\ reply' = NoReply
    /\ UNCHANGED <<folder, analysis_progress, threads, launched, issued, cleaning,
                   gcs, clock, remembered>>

\* analyze_files: the test "analysis is already in progress".
AnalyzeCheckStatus(s) ==
    /\ analyzing[s] = "folder_ok"
    /\ IF AlreadyInProgress(analysis_progress, s)
       THEN /\ reply' = Response("analyze", s, 200,
                                 [session_id |-> s,
                                  message |-> <<"Analysis already in progress">>,
                                  status |-> "processing"])
            /\ analyzing' = [analyzing EXCEPT ![s] = "idle"]
       ELSE /\ analyzing' = [analyzing EXCEPT ![s] = "status_ok"]
            /\ reply' = NoReply
    /\ UNCHANGED <<folder, analysis_progress, threads, launched, issued, cleaning,
                   gcs, clock, remembered>>

\* analyze_files: the new AnalysisState, the background thread, the reply.
AnalyzeStart(s) ==
    /\ analyzing[s] = "status_ok"
    /\ analysis_progress' = Put(analysis_progress, s, InitialState(s))
    /\ threads' = threads (+) SetToBag({NewThread(s)})
    /\ launched' = [launched EXCEPT ![s] = @ + 1]
    /\ reply' = Response("analyze", s, 200,
                         [session_id |-> s, message |-> <<"Analysis started">>,
                          status |-> "processing"])
    /\ analyzing' = [analyzing EXCEPT ![s] = "idle"]
    /\ UNCHANGED <<folder, issued, cleaning,
                   gcs, clock, remembered>>

\* ------------------------------------------------------- process_files_async

\* The listing of the session folder and the switch to 'processing'.
ThreadStart(t) ==
    LET s == t.session_id
    IN /\ t.pc = "start"
       /\ IF s \notin DOMAIN folder
          THEN /\ threads' = Becomes(t, Raise(t, "FileNotFoundError"))
               /\ UNCHANGED analysis_progress
          ELSE IF s \notin DOMAIN analysis_progress
          THEN /\ threads' = Becomes(t, Raise(t, "KeyError"))
               /\ UNCHANGED analysis_progress
          ELSE /\ analysis_progress' =
                     Put(analysis_progress, s,
                         Update(analysis_progress[s],
                                [status |-> "processing",
                                 message |-> <<"Processing ", NumStr(Len(folder[s])),
                                               " files...">>]))
               /\ threads' = Becomes(t, [t EXCEPT !.files = folder[s], !.pc = "loop"])
       /\ reply' = NoReply
       /\ UNCHANGED <<folder, launched, issued, analyzing, cleaning,
                      gcs, clock, remembered>>

\* One iteration of the per-file loop on a file that is not an audio file: the
\* progress update, then the extraction of the file, which raises when the file
\* is gone, may raise otherwise, and returns content when it does not.
ThreadFile(t, content) ==
    LET s == t.session_id
    IN /\ t.pc = "loop"
       /\ t.i < Len(t.files)
       /\ get_file_type(CurrentFile(t)) # "audio"
       /\ IF s \notin DOMAIN analysis_progress
          THEN /\ threads' = Becomes(t, Raise(t, "KeyError"))
               /\ UNCHANGED analysis_progress
          ELSE /\ analysis_progress' =
                     Put(analysis_progress, s,
                         Update(analysis_progress[s],
                                [progress |-> FileProgress(t.i, Len(t.files)),
                                 message |-> <<"Processing ", t.files[t.i + 1], "...">>]))
               /\ \E raised \in BOOLEAN :
                     /\ s \notin DOMAIN folder => raised
                     /\ threads' = Becomes(t, ProcessFile(t, t.files[t.i + 1], raised, content))
       /\ reply' = NoReply
       /\ UNCHANGED <<folder, launched, issued, analyzing, cleaning,
                      gcs, clock, remembered>>

\* After the loop: the overall score, then progress 100 and the final message.
ThreadFinalize(t) ==
    LET s == t.session_id
    IN /\ t.pc = "loop"
       /\ t.i = Len(t.files)
       /\ IF s \notin DOMAIN analysis_progress
          THEN /\ threads' = Becomes(t, Raise(t, "KeyError"))
               /\ UNCHANGED analysis_progress
          ELSE /\ analysis_progress' =
                     Put(analysis_progress, s,
                         Update(analysis_progress[s],
                                [progress |-> 100,
                                 message |-> <<"Analysis completed successfully">>]))
               /\ threads' = Becomes(t, [t EXCEPT !.pc = "update"])
       /\ reply' = NoReply
       /\ UNCHANGED <<folder, launched, issued, analyzing, cleaning,
                      gcs, clock, remembered>>

\* The final update() of the AnalysisState.
ThreadUpdate(t) ==
    LET s == t.session_id
    IN /\ t.pc = "update"
       /\ IF s \notin DOMAIN analysis_progress
          THEN /\ threads' = Becomes(t, Raise(t, "KeyError"))
               /\ UNCHANGED analysis_progress
          ELSE /\ analysis_progress' =
                     Put(analysis_progress, s,
                         Update(analysis_progress[s],
                                CompletedUpdate(s, t.file_results, t.all_content)))
               /\ threads' = Without(t)
       /\ reply' = NoReply
       /\ UNCHANGED <<folder, launched, issued, analyzing, cleaning,
                      gcs, clock, remembered>>

\* The except clause of the outer try, after which the thread returns; a KeyError
\* raised by the clause itself is caught by nothing and kills the thread.
ThreadExcept(t) ==
    LET s == t.session_id
    IN /\ t.pc = "except"
       /\ IF s \notin DOMAIN analysis_progress
          THEN UNCHANGED analysis_progress
          ELSE analysis_progress' =
                     Put(analysis_progress, s,
                         Update(analysis_progress[s], ErrorUpdate(t.exc)))
       /\ threads' = Without(t)
       /\ reply' = NoReply
       /\ UNCHANGED <<folder, launched, issued, analyzing, cleaning,
                      gcs, clock, remembered>>

\* ---------------------------------------------------------- audio_processor

\* The sound an uploaded audio file holds: what the user of the session recorded.
Recording(session_id, filename) == [session |-> session_id, name |-> filename]

\* The WAV file _convert_to_wav writes next to the file it converts.
ConvertedName(filename) ==
    CASE filename = "talk.mp3" -> "talk_converted.wav"
      [] filename = "talk_converted.wav" -> "talk_converted_converted.wav"
      [] OTHER                 -> "talk_converted_converted_converted.wav"

\* f"audio_{int(time.time())}_{os.path.basename(file_path)}"
BlobName(now, basename) == [time |-> now, name |-> basename]

\* What _format_transcript returns for the recognition of a recording: a
\* timestamp line, then the words spoken.
Transcript(recording) ==
    <<[c |-> "t", n |-> 22], [c |-> "nl", n |-> 1],
      [c |-> IF recording.session = "s1" THEN "x" ELSE "y", n |-> 400]>>

\* The names of a listing.
Names(listing) == {listing[j] : j \in 1..Len(listing)}

\* A folder listing after a file has been written into it, and after a file has
\* been removed from it.
WithFile(listing, name) == IF name \in Names(listing) THEN listing ELSE Append(listing, name)

WithoutFile(listing, name) == SelectSeq(listing, LAMBDA f : f # name)

\* process_audio has returned or raised: its locals are gone.
BackToLoop(t) == [t EXCEPT !.pc = "loop", !.uri = None, !.job = None, !.done = FALSE]

\* One iteration of the per-file loop on an audio file, as far as the upload to
\* the bucket: the progress update, the conversion to WAV (which raises when the
\* file is gone and may raise otherwise) and the upload (which may raise).
ThreadAudioUpload(t) ==
    LET s == t.session_id
        filename == CurrentFile(t)
        wav == ConvertedName(filename)
        failed == ProcessFile(t, filename, TRUE, <<>>)
    IN /\ t.pc = "loop"
       /\ t.i < Len(t.files)
       /\ get_file_type(filename) = "audio"
       /\ IF s \notin DOMAIN analysis_progress
          THEN /\ threads' = Becomes(t, Raise(t, "KeyError"))
               /\ UNCHANGED <<analysis_progress, folder, gcs>>
          ELSE /\ analysis_progress' =
                     Put(analysis_progress, s,
                         Update(analysis_progress[s],
                                [progress |-> FileProgress(t.i, Len(t.files)),
                                 message |-> <<"Processing ", filename, "...">>]))
               /\ \/ /\ threads' = Becomes(t, failed)
                     /\ UNCHANGED <<folder, gcs>>
                  \/ /\ s \in DOMAIN folder
                     /\ filename \in Names(folder[s])
                     /\ folder' = Put(folder, s, WithFile(folder[s], wav))
                     /\ \/ /\ threads' = Becomes(t, failed)
                           /\ UNCHANGED gcs
                        \/ /\ gcs' = Put(gcs, BlobName(clock, wav), Recording(s, filename))
                           /\ threads' = Becomes(t, [t EXCEPT !.pc = "recognize",
                                                              !.uri = BlobName(clock, wav)])
       /\ reply' = NoReply
       /\ UNCHANGED <<launched, issued, analyzing, cleaning, clock, remembered>>

\* _transcribe_audio: long_running_recognize starts a job on the audio the URI
\* names, or raises.
ThreadRecognize(t) ==
    /\ t.pc = "recognize"
    /\ \/ threads' = Becomes(t, ProcessFile(BackToLoop(t), CurrentFile(t), TRUE, <<>>))
       \/ threads' = Becomes(t, [t EXCEPT !.pc = "poll", !.job = gcs[t.uri], !.done = FALSE])
    /\ reply' = NoReply
    /\ UNCHANGED <<folder, analysis_progress, launched, issued, analyzing, cleaning,
                   gcs, clock, remembered>>

\* The transcription service finishes a job (or never does).
JobDone(t) ==
    /\ t.pc = "poll"
    /\ ~t.done
    /\ threads' = Becomes(t, [t EXCEPT !.done = TRUE])
    /\ reply' = NoReply
    /\ UNCHANGED <<folder, analysis_progress, launched, issued, analyzing, cleaning,
                   gcs, clock, remembered>>

\* _transcribe_audio past its polling loop, which it leaves only when the job
\* reports done (until then it sleeps and polls again): the result of the job,
\* which raises when the job failed, the removal of the WAV file and the rest of
\* the loop body.
ThreadPoll(t) ==
    LET s == t.session_id
        filename == CurrentFile(t)
    IN /\ t.pc = "poll"
       /\ t.done
       /\ \/ /\ threads' = Becomes(t, ProcessFile(BackToLoop(t), filename, TRUE, <<>>))
             /\ UNCHANGED folder
          \/ /\ threads' = Becomes(t, ProcessFile(BackToLoop(t), filename, FALSE,
                                                  Transcript(t.job)))
             /\ folder' = IF s \in DOMAIN folder
                          THEN Put(folder, s, WithoutFile(folder[s], ConvertedName(filename)))
                          ELSE folder
       /\ reply' = NoReply
       /\ UNCHANGED <<analysis_progress, launched, issued, analyzing, cleaning,
                      gcs, clock, remembered>>

\* A second passes.
Tick(maxClock) ==
    /\ clock < maxClock
    /\ clock' = clock + 1
    /\ reply' = NoReply
    /\ UNCHANGED <<folder, analysis_progress, threads, launched, issued, analyzing,
                   cleaning, gcs, remembered>>

\* --------------------------------------------------------- course outline

common_words_to_exclude ==
    {"a", "about", "above", "after", "again", "against", "all", "am", "among",
     "an", "and", "any", "are", "as", "at", "be", "been", "before", "behind",
     "being", "below", "beneath", "beside", "between", "beyond", "both", "but",
     "by", "can", "concerning", "could", "despite", "did", "do", "does", "doing",
     "down", "during", "each", "few", "for", "from", "further", "had", "has",
     "have", "having", "here", "how", "i", "in", "including", "inside", "into",
     "is", "like", "may", "me", "might", "more", "most", "must", "my", "myself",
     "no", "nor", "not", "of", "off", "on", "once", "only", "or", "other", "our",
     "ours", "ourselves", "out", "outside", "over", "own", "same", "shall",
     "should", "since", "so", "some", "such", "than", "that", "the", "then",
     "there", "these", "this", "those", "through", "throughout", "to", "too",
     "towards", "under", "until", "up", "upon", "very", "was", "we", "were",
     "what", "when", "where", "which", "whichever", "who", "whoever", "whom",
     "whomever", "whose", "why", "will", "with", "within", "without", "would",
     "you", "your", "yours", "yourself", "yourselves"}

\* The stop-words as strings.
StopWords == {Str(w) : w \in common_words_to_exclude}

\* The elements of a list.
Elems(list) == {list[j] : j \in 1..Len(list)}

\* list[:k]
FirstK(list, k) == SubSeq(list, 1, IF Len(list) < k THEN Len(list) ELSE k)

\* list(dict.fromkeys(list)): the first occurrence of every element, in order
Dedupe(list) ==
    Pick(list, {j \in 1..Len(list) : \A i \in 1..(j - 1) : list[i] # list[j]})

\* ''.join(c for c in word if c.isalnum())
clean_word(word) == Norm(SelectSeq(word, LAMBDA run : IsAlnum(run.c)))

\* The cleaned words counted, had the stop-words been counted like any other.
Counted_StopWordsToo(words) ==
    SelectSeq([j \in 1..Len(words) |-> clean_word(words[j])], LAMBDA w : StrLen(w) > 3)

\* The cleaned words counted into word_freq, one entry per counted occurrence.
Counted(words) ==
    SelectSeq([j \in 1..Len(words) |-> clean_word(words[j])],
              LAMBDA w : StrLen(w) > 3 /\ w \notin StopWords)

\* word_freq[w]
Freq(counted, w) == Cardinality({j \in 1..Len(counted) : counted[j] = w})

\* sorted(word_freq.items(), key=lambda x: x[1], reverse=True): the keys by
\* falling count, keys of one count in the order the dict first got them.
SortedByFreq(keys, counted) ==
    LET freq == [j \in 1..Len(keys) |-> Freq(counted, keys[j])]
        ahead(j) == {i \in 1..Len(keys) : freq[i] > freq[j] \/ (freq[i] = freq[j] /\ i < j)}
    IN [r \in 1..Len(keys) |-> keys[CHOOSE j \in 1..Len(keys) : Cardinality(ahead(j)) = r - 1]]

\* key_topics of line 429: the words counted more than once among the 20 most frequent
RepeatedWords(full_content) ==
    LET counted == Counted(Split(Lower(full_content)))
        common_words == FirstK(SortedByFreq(Dedupe(counted), counted), 20)
    IN SelectSeq(common_words, LAMBDA w : Freq(counted, w) > 1)

\* [s.strip() for s in content.split('.') if len(s.strip()) > 20]
Sentences(content) ==
    LET parts == SplitChar(content, ".")
        stripped == [j \in 1..Len(parts) |-> Strip(parts[j])]
    IN SelectSeq(stripped, LAMBDA s : StrLen(s) > 20)

\* The characters of the has_math test; the last four name the signs for
\* sum, integral, root and infinity.
MATH_CHARS == {"=", "+", "-", "*", "/", "sum", "integral", "root", "infinity"}

has_math(content) == \E j \in 1..Len(content) : content[j].c \in MATH_CHARS

has_formulas(content) ==
    ContainsAny(Lower(content), {"formula", "equation", "function", "variable", "parameter"})

has_methods(content) ==
    ContainsAny(Lower(content), {"method", "algorithm", "procedure", "technique", "approach"})

has_problems(content) ==
    ContainsAny(Lower(content),
                {"problem", "solution", "solve", "optimization", "minimize", "maximize"})

has_theory(content) ==
    ContainsAny(Lower(content), {"theory", "principle", "concept", "fundamental"})

\* [Str(w) for w in words]
Strs(words) == [j \in 1..Len(words) |-> Str(words[j])]

\* Lines 444-459: the topics added when fewer than 3 words are repeated.
Supplemented(key_topics, content, title) ==
    IF Len(key_topics) < 3
    THEN LET title_words == Split(Lower(title))
             from_title == SelectSeq(title_words,
                                     LAMBDA word : StrLen(word) > 3 /\ word \notin Elems(key_topics))
             math == IF has_math(content) \/ has_formulas(content)
                     THEN Strs(<<"mathematics", "calculations", "formulas">>) ELSE <<>>
             methods == IF has_methods(content)
                        THEN Strs(<<"methods", "techniques", "procedures">>) ELSE <<>>
             problems == IF has_problems(content)
                         THEN Strs(<<"problem-solving", "optimization", "solutions">>) ELSE <<>>
             extended == key_topics \o from_title \o math \o methods \o problems
         IN IF Len(extended) < 3
            THEN extended \o Strs(<<"fundamentals", "principles", "applications">>)
            ELSE extended
    ELSE key_topics

generate_course_overview(content, key_topics, sentences) ==
    LET word_count == Len(Split(content))
        kind == IF has_math(content) \/ has_formulas(content) THEN 1
                ELSE IF has_methods(content) THEN 2
                ELSE IF has_problems(content) THEN 3
                ELSE IF has_theory(content) THEN 4
                ELSE 5
        course_type == <<"mathematical and analytical", "methodological and procedural",
                         "problem-solving oriented", "theoretical and conceptual",
                         "comprehensive">>[kind]
        focus_areas == <<"mathematical concepts, formulas, and analytical techniques",
                         "methods, techniques, and systematic approaches",
                         "problem identification, solution strategies, and practical applications",
                         "theoretical foundations, principles, and conceptual frameworks",
                         "key concepts and practical applications">>[kind]
        sample_sentences == FirstK(sentences, 3)
        context_info ==
            IF sample_sentences # <<>>
            THEN <<Fmt("Based on the analyzed content, this course covers topics such as: {sample_sentences[0][:100]}...",
                       <<Take(sample_sentences[1], 100)>>)>>
            ELSE <<>>
        topics == IF key_topics # <<>> THEN Join(Str(", "), FirstK(key_topics, 5))
                  ELSE Str("various topics")
    IN [template |-> "This course is designed to provide comprehensive coverage ...",
        course_type |-> course_type, word_count |-> Grouped(word_count),
        topics |-> topics, focus_areas |-> focus_areas, context_info |-> context_info]

\* The topics of a module, had nothing filled them up.
FillTopics_Nothing(module_topics, topic) == module_topics

\* Lines 562-568: the generic topics that fill a module up to 4.
RECURSIVE FillTopics(_, _)
FillTopics(module_topics, topic) ==
    IF Len(module_topics) >= 4 THEN module_topics
    ELSE LET introduction == Fmt("Introduction to {topic}", <<topic>>)
             advanced == Fmt("Advanced {topic}", <<topic>>)
             review == Fmt("Review and assessment of {topic}", <<topic>>)
         IN FillTopics(Append(module_topics,
                              IF introduction \notin Elems(module_topics) THEN introduction
                              ELSE IF advanced \notin Elems(module_topics) THEN advanced
                              ELSE review),
                       topic)

generate_course_modules(content, key_topics, sentences) ==
    LET content_sections == SelectSeq(SplitBlankLines(content), LAMBDA s : Truthy(Strip(s)))
        section_count == Len(content_sections)
        content_lower == Lower(content)
        has_definitions == ContainsAny(content_lower, {"definition", "define", "means", "refers to"})
        has_examples == ContainsAny(content_lower, {"example", "instance", "case", "scenario"})
        has_problem_words == ContainsAny(content_lower, {"problem", "question", "exercise", "task"})
        has_method_words == has_methods(content)
        has_theory_words == has_theory(content)
        has_applications == ContainsAny(content_lower,
                                        {"application", "use", "implement", "practice"})
        when(flag, template, topic) == IF flag THEN <<Fmt(template, <<topic>>)>> ELSE <<>>
        focused(i, topic) ==
            LET module_topics ==
                    when(has_theory_words, "Theory and principles of {topic}", topic)
                    \o when(has_definitions, "Key definitions and concepts in {topic}", topic)
                    \o when(has_method_words, "Methods and techniques for {topic}", topic)
                    \o when(has_examples, "Examples and case studies in {topic}", topic)
                    \o when(has_applications, "Practical applications of {topic}", topic)
                    \o when(has_problem_words, "Problem-solving with {topic}", topic)
            IN [module_number |-> i,
                title |-> Fmt("Module {i + 1}: {topic.capitalize()}", <<Dec(i), Capitalize(topic)>>),
                description |-> Fmt("Comprehensive coverage of {topic} concepts, methods, and applications based on the analyzed content",
                                    <<topic>>),
                topics |-> FirstK(FillTopics(module_topics, topic), 4),
                estimated_time |-> "2-3 hours"]
        half == section_count \div 2
        module_count == IF half < 3 THEN 3 ELSE IF half > 6 THEN 6 ELSE half
        fixed(names) == [j \in 1..Len(names) |-> Fmt(names[j], <<>>)]
        generic(i) ==
            IF has_theory_words /\ i = 1
            THEN [module_number |-> i,
                  title |-> Fmt("Module 1: Theoretical Foundations", <<>>),
                  description |-> Fmt("Understanding the fundamental theories and principles", <<>>),
                  topics |-> fixed(<<"Core theoretical concepts", "Key principles",
                                     "Fundamental definitions", "Theoretical framework">>),
                  estimated_time |-> "2-3 hours"]
            ELSE IF has_method_words /\ (i = 2 \/ ~has_theory_words)
            THEN [module_number |-> i,
                  title |-> Fmt("Module {i + 1}: Methods and Techniques", <<Dec(i)>>),
                  description |-> Fmt("Learning practical methods and techniques", <<>>),
                  topics |-> fixed(<<"Methodology overview", "Step-by-step procedures",
                                     "Technique applications", "Best practices">>),
                  estimated_time |-> "2-3 hours"]
            ELSE IF has_applications
            THEN [module_number |-> i,
                  title |-> Fmt("Module {i + 1}: Practical Applications", <<Dec(i)>>),
                  description |-> Fmt("Applying concepts to real-world scenarios", <<>>),
                  topics |-> fixed(<<"Real-world applications", "Case studies",
                                     "Practical examples", "Implementation strategies">>),
                  estimated_time |-> "2-3 hours"]
            ELSE IF has_problem_words
            THEN [module_number |-> i,
                  title |-> Fmt("Module {i + 1}: Problem Solving", <<Dec(i)>>),
                  description |-> Fmt("Developing problem-solving skills", <<>>),
                  topics |-> fixed(<<"Problem identification", "Solution approaches",
                                     "Problem-solving techniques", "Practice exercises">>),
                  estimated_time |-> "2-3 hours"]
            ELSE [module_number |-> i,
                  title |-> Fmt("Module {i + 1}: Core Concepts", <<Dec(i)>>),
                  description |-> Fmt("Essential concepts and principles", <<>>),
                  topics |-> fixed(<<"Introduction and overview", "Key concepts",
                                     "Important principles", "Summary and review">>),
                  estimated_time |-> "2-3 hours"]
    IN IF Len(key_topics) >= 3
       THEN [i \in 1..Len(FirstK(key_topics, 6)) |-> focused(i, key_topics[i])]
       ELSE [i \in 1..module_count |-> generic(i)]

\* The objectives, had the content-specific ones been left out.
generate_learning_objectives_Unconditional(key_topics, content) ==
    LET objectives ==
            <<Fmt("Understand the fundamental concepts presented in the course material", <<>>),
              Fmt("Apply key principles to practical scenarios", <<>>),
              Fmt("Analyze and evaluate different approaches and methodologies", <<>>),
              Fmt("Demonstrate comprehension through practical application", <<>>)>>
            \o [j \in 1..Len(FirstK(key_topics, 3)) |->
                  Fmt("Master the concepts and applications of {topic}", <<key_topics[j]>>)]
    IN FirstK(Dedupe(objectives), 8)

generate_learning_objectives(key_topics, content) ==
    LET content_lower == Lower(content)
        when(words, objective) ==
            IF ContainsAny(content_lower, words) THEN <<Fmt(objective, <<>>)>> ELSE <<>>
        objectives ==
            <<Fmt("Understand the fundamental concepts presented in the course material", <<>>),
              Fmt("Apply key principles to practical scenarios", <<>>),
              Fmt("Analyze and evaluate different approaches and methodologies", <<>>),
              Fmt("Demonstrate comprehension through practical application", <<>>)>>
            \o when({"problem", "solution", "solve"},
                    "Develop problem-solving skills and analytical thinking")
            \o when({"method", "algorithm", "procedure", "technique"},
                    "Master specific methods and techniques relevant to the subject")
            \o when({"formula", "equation", "calculation"},
                    "Apply mathematical concepts and perform accurate calculations")
            \o when({"application", "implement", "practice"},
                    "Implement concepts in real-world applications and scenarios")
            \o when({"theory", "principle", "concept"},
                    "Comprehend theoretical foundations and underlying principles")
            \o [j \in 1..Len(FirstK(key_topics, 3)) |->
                  Fmt("Master the concepts and applications of {topic}", <<key_topics[j]>>)]
    IN FirstK(Dedupe(objectives), 8)

\* The duration, had the minutes been rounded up.
estimate_course_duration_RoundedUp(word_count) ==
    LET total_time == RatMul(Rat(word_count, 200), Rat(5, 2))
        up == (total_time.n + total_time.d - 1) \div total_time.d
        hours == up \div 60
        minutes == up % 60
    IN IF hours > 0
       THEN Fmt("{hours} hours {minutes} minutes", <<Dec(hours), Dec(minutes)>>)
       ELSE Fmt("{minutes} minutes", <<Dec(minutes)>>)

\* The floats of the source are computed as exact rationals: for every count
\* below 300,000 the floats give the same hours and minutes.
estimate_course_duration(word_count) ==
    LET reading_time == Rat(word_count, 200)
        total_time == RatMul(reading_time, Rat(5, 2))
        hours == RatFloorDiv(total_time, 60)
        minutes == RatModInt(total_time, 60)
    IN IF hours > 0
       THEN Fmt("{hours} hours {minutes} minutes", <<Dec(hours), Dec(minutes)>>)
       ELSE Fmt("{minutes} minutes", <<Dec(minutes)>>)

\* sum(len(word) for word in words)
RECURSIVE TotalLen(_)
TotalLen(words) ==
    IF words = <<>> THEN 0
    ELSE IF Len(words) = 1 THEN StrLen(words[1])
    ELSE LET half == Len(words) \div 2
         IN TotalLen(SubSeq(words, 1, half)) + TotalLen(SubSeq(words, half + 1, Len(words)))

\* avg_word_length > 6 and > 4.5, compared without the division.
estimate_difficulty_level(content) ==
    LET words == Split(content)
        total == TotalLen(words)
    IN IF words # <<>> /\ total > 6 * Len(words) THEN "Advanced"
       ELSE IF words # <<>> /\ 2 * total > 9 * Len(words) THEN "Intermediate"
       ELSE "Beginner"

\* The text analyzed, had the synthesizer read the aggregated text of a stored
\* session along with the content it is given.
FullContent_WithStored(content, notes) ==
    LET own == IF Truthy(notes)
               THEN Cat(Cat(content, Str("\n\nAdditional Notes:\n")), notes)
               ELSE content
        stored == {s \in DOMAIN analysis_progress :
                      "all_content" \in DOMAIN analysis_progress[s]}
    IN IF stored = {} THEN own
       ELSE Cat(Cat(own, Separator), analysis_progress[CHOOSE s \in stored : TRUE].all_content)

\* Lines 408-410: the content with the notes after it.
FullContent(content, notes) ==
    IF Truthy(notes)
    THEN Cat(Cat(content, Str("\n\nAdditional Notes:\n")), notes)
    ELSE content

generate_course_structure(content, title, notes) ==
    LET full_content == FullContent(content, notes)
        word_count == Len(Split(Lower(full_content)))
        sentences == Sentences(content)
        key_topics == FirstK(Dedupe(Supplemented(RepeatedWords(full_content), content, title)), 10)
    IN [title |-> title,
        overview |-> generate_course_overview(content, key_topics, sentences),
        modules |-> generate_course_modules(content, key_topics, sentences),
        learning_objectives |-> generate_learning_objectives(key_topics, content),
        estimated_duration |-> estimate_course_duration(word_count),
        difficulty_level |-> estimate_difficulty_level(content),
        key_topics |-> key_topics]

\* ---------------------------------------------------------------- progress

\* get_progress
GetProgress(s) ==
    /\ reply' = IF s \notin DOMAIN analysis_progress
                THEN Response("progress", s, 404, [error |-> <<"Session not found">>])
                ELSE Response("progress", s, 200, analysis_progress[s])
    /\ UNCHANGED <<folder, analysis_progress, threads, launched, issued,
                   analyzing, cleaning,
                   gcs, clock, remembered>>

\* ----------------------------------------------------------------- cleanup

\* cleanup_session up to the removal of the session folder.
CleanupRmtree(s) ==
    /\ s \notin cleaning
    /\ folder' = IF s \in DOMAIN folder THEN Del(folder, s) ELSE folder
    /\ cleaning' = cleaning \cup {s}
    /\ reply' = NoReply
    /\ UNCHANGED <<analysis_progress, threads, launched, issued, analyzing,
                   gcs, clock, remembered>>

\* cleanup_session, had it deleted the store entry without testing that there is
\* one: the KeyError is caught by the handler's except clause.
CleanupDelete_Strict(s) ==
    /\ s \in cleaning
    /\ analysis_progress' = IF s \in DOMAIN analysis_progress
                            THEN Del(analysis_progress, s) ELSE analysis_progress
    /\ cleaning' = cleaning \ {s}
    /\ reply' = IF s \in DOMAIN analysis_progress
                THEN Response("cleanup", s, 200,
                              [message |-> <<"Session cleaned up successfully">>])
                ELSE Response("cleanup", s, 500,
                              [error |-> <<"Cleanup failed">>, message |-> "KeyError"])
    /\ UNCHANGED <<folder, threads, launched, issued, analyzing,
                   gcs, clock, remembered>>

\* cleanup_session: the removal from progress tracking and the acknowledgement.
CleanupDelete(s) ==
    /\ s \in cleaning
    /\ analysis_progress' = IF s \in DOMAIN analysis_progress
                            THEN Del(analysis_progress, s) ELSE analysis_progress
    /\ cleaning' = cleaning \ {s}
    /\ reply' = Response("cleanup", s, 200,
                         [message |-> <<"Session cleaned up successfully">>])
    /\ UNCHANGED <<folder, threads, launched, issued, analyzing,
                   gcs, clock, remembered>>

\* ---------------------------------------------------------- generate course

\* The response of generate_course, kept with the request it answers and the
\* content it generated from (empty when it refused).
CourseReply(request, code, body, content) ==
    [op |-> "generate", sid |-> request.session_id, code |-> code, body |-> body,
     request |-> request, content |-> content]

\* What a generate-course request resolves to, had an unknown session been
\* refused before the content sent along was looked at.
Resolve_SessionFirst(store, session_id, extracted_content, additional_notes) ==
    LET refuse(code, error) == [code |-> code, error |-> error, content |-> <<>>]
        use(analyzed_content) == [code |-> 200, error |-> "", content |-> analyzed_content]
    IN IF session_id # None /\ session_id \notin DOMAIN store
       THEN refuse(404, "Session not found")
       ELSE IF Truthy(extracted_content) THEN use(extracted_content)
       ELSE IF session_id # None
       THEN IF store[session_id].status # "completed"
            THEN refuse(400, "Analysis not completed yet")
            ELSE IF "all_content" \notin DOMAIN store[session_id]
                    \/ ~Truthy(store[session_id].all_content)
            THEN refuse(400, "No analyzed content available")
            ELSE use(store[session_id].all_content)
       ELSE use(IF Truthy(additional_notes) THEN additional_notes
                ELSE Str("General course content based on the provided title."))

\* Lines 355-381: the content to generate from, or the refusal.
Resolve(store, session_id, extracted_content, additional_notes) ==
    LET refuse(code, error) == [code |-> code, error |-> error, content |-> <<>>]
        use(analyzed_content) ==
            IF ~Truthy(analyzed_content)
            THEN refuse(400, "No content available for course generation")
            ELSE [code |-> 200, error |-> "", content |-> analyzed_content]
    IN IF Truthy(extracted_content) THEN use(extracted_content)
       ELSE IF session_id # None
       THEN IF session_id \notin DOMAIN store THEN refuse(404, "Session not found")
            ELSE LET session_data == store[session_id]
                     all_content == IF "all_content" \in DOMAIN session_data
                                    THEN session_data.all_content ELSE <<>>
                 IN IF session_data.status # "completed"
                    THEN refuse(400, "Analysis not completed yet")
                    ELSE IF ~Truthy(all_content)
                    THEN refuse(400, "No analyzed content available")
                    ELSE use(all_content)
       ELSE use(IF Truthy(additional_notes) THEN additional_notes
                ELSE Str("General course content based on the provided title."))

\* POST /api/generate-course with a JSON object; a field left out is None for
\* session_id and the empty string for the others. With remember set, the
\* outline returned and what it was generated from are noted in the history.
GenerateCourse(session_id, title, notes, extracted, remember) ==
    LET course_title == Strip(title)
        additional_notes == Strip(notes)
        extracted_content == Strip(extracted)
        request == [session_id |-> session_id, course_title |-> title,
                    additional_notes |-> notes, extracted_content |-> extracted]
        resolved == Resolve(analysis_progress, session_id, extracted_content, additional_notes)
    IN /\ remember => remembered = <<>>
       /\ reply' =
            IF ~Truthy(course_title)
            THEN CourseReply(request, 400, [error |-> <<"Course title is required">>], <<>>)
            ELSE IF resolved.code # 200
            THEN CourseReply(request, resolved.code, [error |-> <<resolved.error>>], <<>>)
            ELSE CourseReply(request, 200,
                             [success |-> TRUE,
                              course_structure |->
                                  generate_course_structure(resolved.content, course_title,
                                                            additional_notes),
                              course_title |-> course_title,
                              content_length |-> StrLen(resolved.content),
                              generated_at |-> clock],
                             resolved.content)
       /\ remember => reply'.code = 200
       /\ remembered' = IF remember
                        THEN <<[session_id |-> session_id, explicit |-> extracted_content,
                                content |-> reply'.content, title |-> course_title,
                                notes |-> additional_notes,
                                outline |-> reply'.body.course_structure]>>
                        ELSE remembered
       /\ UNCHANGED <<folder, analysis_progress, threads, launched, issued, analyzing,
                      cleaning, gcs, clock>>

\* --------------------------------------------------------------- behaviours

Next ==
    \/ \E s \in OneSession, listing \in Listings(MaxFiles), accepted \in BOOLEAN :
          Upload(s, listing, accepted)
    \/ \E s \in OneSession : AnalyzeCheckFolder(s, MaxRuns)
    \/ \E s \in OneSession : AnalyzeCheckStatus(s)
    \/ \E s \in OneSession : AnalyzeStart(s)
    \/ \E t \in BagToSet(threads) : ThreadStart(t)
    \/ \E t \in BagToSet(threads) : ThreadFile(t, ExtractedText(CurrentFile(t)))
    \/ \E t \in BagToSet(threads) : ThreadFinalize(t)
    \/ \E t \in BagToSet(threads) : ThreadUpdate(t)
    \/ \E t \in BagToSet(threads) : ThreadExcept(t)
    \/ \E s \in OneSession : GetProgress(s)
    \/ \E s \in OneSession : CleanupRmtree(s)
    \/ \E s \in OneSession : CleanupDelete(s)

Spec == Init /\ [][Next]_vars

\* upload_files for a request of these files, each of a supported type: every
\* file is saved under its secured name.
UploadNamed(s, names) ==
    /\ \A j \in 1..Len(names) : get_file_type(names[j]) # "None"
    /\ Upload(s, [j \in 1..Len(names) |-> secure_filename(names[j])], TRUE)

\* The requests of the uploads whose file names are studied.
NamedUploads == {<<"notes.txt">>, <<".pdf">>, <<"notes.txt", ".pdf">>, <<".pdf", "scan.pdf">>}

\* The operations on one session uploaded by one of these requests.
NamedOperations(requests) ==
    \/ \E s \in OneSession, names \in requests : UploadNamed(s, names)
    \/ \E s \in OneSession : AnalyzeCheckFolder(s, MaxRuns)
    \/ \E s \in OneSession : AnalyzeCheckStatus(s)
    \/ \E s \in OneSession : AnalyzeStart(s)
    \/ \E t \in BagToSet(threads) : ThreadStart(t)
    \/ \E t \in BagToSet(threads) : ThreadFile(t, ExtractedText(CurrentFile(t)))
    \/ \E t \in BagToSet(threads) : ThreadFinalize(t)
    \/ \E t \in BagToSet(threads) : ThreadUpdate(t)
    \/ \E t \in BagToSet(threads) : ThreadExcept(t)
    \/ \E s \in OneSession : GetProgress(s)
    \/ \E s \in OneSession : CleanupRmtree(s)
    \/ \E s \in OneSession : CleanupDelete(s)

NamedNext == NamedOperations(NamedUploads)

NamedSpec == Init /\ [][NamedNext]_vars

\* The operations on one session of two files, one of them saved without its
\* extension, with the runs scheduled fairly: a thread that can take its next
\* step eventually takes it, and an extraction that was called
\* eventually returns or raises. Nothing obliges a client to send a request.
RunsFair ==
    /\ WF_vars(\E t \in BagToSet(threads) : ThreadStart(t))
    /\ WF_vars(\E t \in BagToSet(threads) : ThreadFile(t, ExtractedText(CurrentFile(t))))
    /\ WF_vars(\E t \in BagToSet(threads) : ThreadFinalize(t))
    /\ WF_vars(\E t \in BagToSet(threads) : ThreadUpdate(t))
    /\ WF_vars(\E t \in BagToSet(threads) : ThreadExcept(t))

FairNext == NamedOperations({<<"notes.txt", ".pdf">>})

FairSpec == Init /\ [][FairNext]_vars /\ RunsFair

\* The same for sessions of one, three and four files, where the progress of
\* the per-file loop is studied.
ProgressUploads ==
    {<<"notes.txt">>, <<"blank.png", "notes.txt", "scan.pdf">>,
     <<"blank.png", "notes.txt", ".pdf", "scan.pdf">>}

ProgressNext == NamedOperations(ProgressUploads)

ProgressSpec == Init /\ [][ProgressNext]_vars

\* The same operations where a session of few files is analyzed again and again.
RerunNext ==
    \/ \E s \in OneSession, listing \in Listings(RerunFiles), accepted \in BOOLEAN :
          Upload(s, listing, accepted)
    \/ \E s \in OneSession : AnalyzeCheckFolder(s, MaxReruns)
    \/ \E s \in OneSession : AnalyzeCheckStatus(s)
    \/ \E s \in OneSession : AnalyzeStart(s)
    \/ \E t \in BagToSet(threads) : ThreadStart(t)
    \/ \E t \in BagToSet(threads) : ThreadFile(t, ExtractedText(CurrentFile(t)))
    \/ \E t \in BagToSet(threads) : ThreadFinalize(t)
    \/ \E t \in BagToSet(threads) : ThreadUpdate(t)
    \/ \E t \in BagToSet(threads) : ThreadExcept(t)
    \/ \E s \in OneSession : GetProgress(s)
    \/ \E s \in OneSession : CleanupRmtree(s)
    \/ \E s \in OneSession : CleanupDelete(s)

RerunSpec == Init /\ [][RerunNext]_vars

\* The same operations on sessions that hold one audio file each.
AudioOperations(sessions) ==
    \/ \E s \in sessions : Upload(s, <<"talk.mp3">>, TRUE)
    \/ \E s \in sessions : AnalyzeCheckFolder(s, MaxAudioRuns)
    \/ \E s \in sessions : AnalyzeCheckStatus(s)
    \/ \E s \in sessions : AnalyzeStart(s)
    \/ \E t \in BagToSet(threads) : ThreadStart(t)
    \/ \E t \in BagToSet(threads) : ThreadAudioUpload(t)
    \/ \E t \in BagToSet(threads) : ThreadRecognize(t)
    \/ \E t \in BagToSet(threads) : JobDone(t)
    \/ \E t \in BagToSet(threads) : ThreadPoll(t)
    \/ \E t \in BagToSet(threads) : ThreadFinalize(t)
    \/ \E t \in BagToSet(threads) : ThreadUpdate(t)
    \/ \E t \in BagToSet(threads) : ThreadExcept(t)
    \/ \E s \in sessions : GetProgress(s)
    \/ \E s \in sessions : CleanupRmtree(s)
    \/ \E s \in sessions : CleanupDelete(s)
    \/ Tick(MaxClock)

AudioNext == AudioOperations(Sessions)

AudioSpec == Init /\ [][AudioNext]_vars

\* One audio session alone, its runs scheduled fairly: a thread that can take its
\* next step eventually takes it. Nothing obliges a client to send a request, the
\* clock to advance or the transcription service to finish a job.
LiveNext == AudioOperations(OneSession)

ThreadsFair ==
    /\ WF_vars(\E t \in BagToSet(threads) : ThreadStart(t))
    /\ WF_vars(\E t \in BagToSet(threads) : ThreadAudioUpload(t))
    /\ WF_vars(\E t \in BagToSet(threads) : ThreadRecognize(t))
    /\ WF_vars(\E t \in BagToSet(threads) : ThreadPoll(t))
    /\ WF_vars(\E t \in BagToSet(threads) : ThreadFinalize(t))
    /\ WF_vars(\E t \in BagToSet(threads) : ThreadUpdate(t))
    /\ WF_vars(\E t \in BagToSet(threads) : ThreadExcept(t))

LiveSpec == Init /\ [][LiveNext]_vars /\ ThreadsFair

\* One audio session that is analyzed more than once: what a run leaves in the
\* folder is there when the next run lists it.
ReplayNext ==
    \/ \E s \in OneSession : Upload(s, <<"talk.mp3">>, TRUE)
    \/ \E s \in OneSession : AnalyzeCheckFolder(s, MaxRuns)
    \/ \E s \in OneSession : AnalyzeCheckStatus(s)
    \/ \E s \in OneSession : AnalyzeStart(s)
    \/ \E t \in BagToSet(threads) : ThreadStart(t)
    \/ \E t \in BagToSet(threads) : ThreadAudioUpload(t)
    \/ \E t \in BagToSet(threads) : ThreadRecognize(t)
    \/ \E t \in BagToSet(threads) : JobDone(t)
    \/ \E t \in BagToSet(threads) : ThreadPoll(t)
    \/ \E t \in BagToSet(threads) : ThreadFinalize(t)
    \/ \E t \in BagToSet(threads) : ThreadUpdate(t)
    \/ \E t \in BagToSet(threads) : ThreadExcept(t)
    \/ \E s \in OneSession : GetProgress(s)
    \/ \E s \in OneSession : CleanupRmtree(s)
    \/ \E s \in OneSession : CleanupDelete(s)
    \/ Tick(MaxClock)

ReplaySpec == Init /\ [][ReplayNext]_vars

\* The texts an extraction can return where scoring is studied: up to MaxChars
\* letters, bare or between a leading blank and a trailing line break.
ScoreTexts ==
    {IF L = 0 THEN <<>> ELSE <<[c |-> "a", n |-> L]>> : L \in 0..MaxChars}
    \cup {<<[c |-> "ws", n |-> 1]>> \o (IF L = 0 THEN <<>> ELSE <<[c |-> "a", n |-> L]>>)
             \o <<[c |-> "nl", n |-> 1]>> : L \in 0..MaxChars}

\* A session of one text file whose run has entered the per-file loop: the state
\* upload_files, analyze_files and the first lines of process_files_async leave.
ScoreInit ==
    /\ folder = Put(EmptyDict, "s1", <<"notes.txt">>)
    /\ analysis_progress =
          Put(EmptyDict, "s1",
              Update(InitialState("s1"),
                     [status |-> "processing",
                      message |-> <<"Processing ", NumStr(1), " files...">>]))
    /\ threads = SetToBag({[NewThread("s1") EXCEPT !.files = <<"notes.txt">>, !.pc = "loop"]})
    /\ launched = [s \in Sessions |-> IF s = "s1" THEN 1 ELSE 0]
    /\ issued = Put(EmptyDict, "s1", TRUE)
    /\ analyzing = [s \in Sessions |-> "idle"]
    /\ cleaning = {}
    /\ reply = NoReply
    /\ gcs = EmptyDict
    /\ clock = 0
    /\ remembered = <<>>

\* The run of that session, over every text the file can hold.
ScoreNext ==
    \/ \E t \in BagToSet(threads), text \in ScoreTexts : ThreadFile(t, text)
    \/ \E t \in BagToSet(threads) : ThreadFinalize(t)
    \/ \E t \in BagToSet(threads) : ThreadUpdate(t)

ScoreSpec == ScoreInit /\ [][ScoreNext]_vars

\* The pipeline of one session holding one file and analyzed once, together
\* with generate-course requests.
CourseOperations(uploads, titles, notes_sent, contents, remembering) ==
    \/ \E s \in OneSession, listing \in uploads : Upload(s, listing, TRUE)
    \/ \E s \in OneSession : AnalyzeCheckFolder(s, CourseRuns)
    \/ \E s \in OneSession : AnalyzeCheckStatus(s)
    \/ \E s \in OneSession : AnalyzeStart(s)
    \/ \E t \in BagToSet(threads) : ThreadStart(t)
    \/ \E t \in BagToSet(threads) : ThreadFile(t, ExtractedText(CurrentFile(t)))
    \/ \E t \in BagToSet(threads) : ThreadFinalize(t)
    \/ \E t \in BagToSet(threads) : ThreadUpdate(t)
    \/ \E t \in BagToSet(threads) : ThreadExcept(t)
    \/ \E s \in OneSession : GetProgress(s)
    \/ \E s \in OneSession : CleanupRmtree(s)
    \/ \E s \in OneSession : CleanupDelete(s)
    \/ \E session_id \in {None} \cup OneSession, title \in titles, notes \in notes_sent,
          extracted \in contents, remember \in remembering :
          GenerateCourse(session_id, title, notes, extracted, remember)

\* The titles, notes and contents the requests carry.
CourseTitles == {<<>>, Str("  "), Str("Matrix Methods")}

CourseNotes == {<<>>, Str("matrix notes")}

CourseContents == {<<>>, Str("matrix notes")}

CourseNext ==
    CourseOperations({<<"blank.png">>, <<"notes.txt">>}, CourseTitles, CourseNotes,
                     CourseContents, {FALSE})

CourseSpec == Init /\ [][CourseNext]_vars

\* The same with requests that repeat: the content sent along is the text
\* extracted from the file, and one outline returned is kept for comparison.
RepeatNext ==
    CourseOperations({<<"notes.txt">>}, {Str("Matrix Methods")}, {Str("matrix notes")},
                     {<<>>, ExtractedText("notes.txt")}, BOOLEAN)

RepeatSpec == Init /\ [][RepeatNext]_vars

\* The words of a list of literals, one blank between two, and the same with
\* every word written twice in a row.
Sentence(words) ==
    Join(<<[c |-> "ws", n |-> 1]>>, [j \in 1..Len(words) |-> Str(words[j])])

Twice(words) ==
    Sentence([j \in 1..(2 * Len(words)) |-> words[(j + 1) \div 2]])

\* The words of a list of literals as sections, one empty line between two.
Sections(words) ==
    Join(<<[c |-> "nl", n |-> 2]>>, [j \in 1..Len(words) |-> Str(words[j])])

\* The titles, notes and contents of the requests where the outline itself is
\* studied: titles with a stop-word, with one word three times, without a word
\* longer than three letters and made of fallback topics; contents without a
\* repeated word, with repeated stop-words and short words, with 1, 2, 3, 7 and
\* 12 repeated words, and in 8 and 14 sections.
OutlineTitles ==
    {Str("Matrix Methods"), Str("Work with Matrix"), Str("Matrix Matrix Matrix"),
     Str("the"), Sentence(<<"fundamentals", "principles">>)}

OutlineNotes == {<<>>, Str("matrix notes")}

OutlineContents ==
    {<<>>,
     Str("matrix notes"),
     Str("the cat sat on the mat and the dog ran fast fast fast"),
     Str("solve the matrix problem. use the matrix method = theory."),
     Runs(<<"M", "a", "t", "r", "i", "x", "ws", "m", "a", "t", "r", "i", "x", ".">>),
     Runs(<<"c", "a", "t", "ws", "c", "a", "t", "ws", "d", "o", "g", "ws", "d", "o", "g">>),
     Twice(<<"about", "with", "there">>),
     Twice(<<"formula", "equation", "function">>),
     Twice(<<"formula", "equation", "function", "variable", "parameter", "method",
             "algorithm">>),
     Twice(<<"formula", "equation", "function", "variable", "parameter", "method",
             "algorithm", "procedure", "technique", "approach", "problem", "solution">>),
     Sections(<<"about", "above", "after", "again", "against", "among", "before",
                "behind">>),
     Sections(<<"theory", "practice", "question", "about", "above", "after", "again",
                "against">>),
     Sections(<<"about", "above", "after", "again", "against", "among", "before",
                "behind", "being", "below", "beneath", "beside", "between", "beyond">>)}

\* One generate-course request without a session, its outline kept.
OutlineNext ==
    \E title \in OutlineTitles, notes \in OutlineNotes, extracted \in OutlineContents :
        GenerateCourse(None, title, notes, extracted, TRUE)

OutlineSpec == Init /\ [][OutlineNext]_vars

\* generate_course_structure past line 414, the words of its text counted, and
\* at line 471, the duration estimated from the count.
WordsCounted(word_count) == [op |-> "words", word_count |-> word_count]

DurationInit ==
    /\ folder = EmptyDict
    /\ analysis_progress = EmptyDict
    /\ threads = EmptyBag
    /\ launched = [s \in Sessions |-> 0]
    /\ issued = EmptyDict
    /\ analyzing = [s \in Sessions |-> "idle"]
    /\ cleaning = {}
    /\ reply \in {WordsCounted(word_count) : word_count \in 0..MaxWords}
    /\ gcs = EmptyDict
    /\ clock = 0
    /\ remembered = <<>>

EstimateDuration ==
    /\ reply.op = "words"
    /\ reply' = [op |-> "duration", word_count |-> reply.word_count,
                 estimated_duration |-> estimate_course_duration(reply.word_count)]
    /\ UNCHANGED <<folder, analysis_progress, threads, launched, issued, analyzing,
                   cleaning, gcs, clock, remembered>>

DurationNext == EstimateDuration

DurationSpec == DurationInit /\ [][DurationNext]_vars

\* ------------------------------------------------------------------ claims

\* The status of a session's AnalysisState, "absent" when it has none.
StatusOf(store, s) == IF s \in DOMAIN store THEN store[s].status ELSE "absent"

\* The sessions created by an accepted upload (cleaned up or not).
Uploaded == {s \in DOMAIN issued : issued[s]}

\* C1: at most one run is active for a session at any time; two start-analysis
\* requests issued back to back never result in two runs executing concurrently.
C1_AtMostOneActiveRun == \A s \in Uploaded : ActiveRuns(s) <= 1

\* The FileResults of the first k of files when no extraction raises.
RECURSIVE AllSucceed(_, _)
AllSucceed(files, k) ==
    IF k = 0 THEN <<>>
    ELSE Append(AllSucceed(files, k - 1),
                [filename |-> files[k], file_type |-> get_file_type(files[k]),
                 content |-> ExtractedText(files[k]),
                 score |-> calculate_extraction_score(ExtractedText(files[k])),
                 status |-> get_score_status(calculate_extraction_score(ExtractedText(files[k])))])

\* The FileResult of a file whose extraction raised: empty text, score 0, bucket
\* error and the error message.
IsErrorResult(r, filename) ==
    /\ DOMAIN r = {"filename", "file_type", "content", "score", "status", "error"}
    /\ r.filename = filename
    /\ r.content = <<>>
    /\ r.score = Zero
    /\ r.status = "error"
    /\ r.error = "ExtractionError"

\* C2, in every state: the loop has one FileResult per file it has passed, that of
\* a raising file being the error result and that of any other file being what it
\* is when no file raises; and no extraction fault reaches the outer except clause.
C2_ResultsSoFar ==
    \A t \in BagToSet(threads) :
       /\ t.exc # "ExtractionError"
       /\ t.pc \in {"loop", "update"} =>
             /\ Len(t.file_results) = t.i
             /\ t.pc = "update" => t.i = Len(t.files)
             /\ \A j \in 1..t.i :
                   \/ IsErrorResult(t.file_results[j], t.files[j])
                   \/ t.file_results[j] = AllSucceed(t.files, t.i)[j]

\* C2, in every step: a run that makes its final update leaves the status
\* completed and its FileResults, raising files included, as the stored results.
C2_EndsCompleted ==
    \A t \in BagToSet(threads) :
       (/\ t.pc = "update"
        /\ t.session_id \in DOMAIN analysis_progress
        /\ threads' = Without(t))
       => /\ t.session_id \in DOMAIN analysis_progress'
          /\ analysis_progress'[t.session_id].status = "completed"
          /\ analysis_progress'[t.session_id].results = t.file_results

\* C2: per-file isolation. For every run and every subset of files whose
\* extraction raises, the run still ends in status completed; each raising file
\* gets a FileResult with empty text, score 0, bucket error and the error message,
\* and the FileResult of every other file is what it would be had no file raised.
C2_PerFileIsolation == [](C2_ResultsSoFar) /\ [][C2_EndsCompleted]_vars

\* C2's case: a completed run whose first file raised and whose second did not.
C2_Witness ==
    \E s \in DOMAIN analysis_progress :
       /\ analysis_progress[s].status = "completed"
       /\ Len(analysis_progress[s].results) = 2
       /\ analysis_progress[s].results[1].status = "error"
       /\ analysis_progress[s].results[2].status = "yellow"

\* C3 as claimed: progress = 100 if and only if the status is completed or error.
C3_ProgressHundredIffTerminal ==
    \A s \in DOMAIN analysis_progress :
       analysis_progress[s].progress = 100
          <=> analysis_progress[s].status \in {"completed", "error"}

\* One step of one session's AnalysisState, for C3 as amended.
C3_Step(s) ==
    LET old == analysis_progress[s]
        new == analysis_progress'[s]
    IN /\ (new.status = "completed" /\ old.status # "completed") => new.progress = 100
       /\ (new.status = "error" /\ old.status # "error") => new.progress = 0
       /\ (new.progress = 100 /\ old.progress # 100)
             => (new.status = old.status \/ new.status = "completed")

\* C3 as amended: the status becomes completed only together with progress 100 and
\* becomes error only together with progress 0; progress becomes 100 only by a
\* run's finalization, which leaves the status as it was (so progress 100 shows
\* with a non-terminal status) until the final update sets completed.
C3_TerminalWritesProgress ==
    [][\A s \in DOMAIN analysis_progress \cap DOMAIN analysis_progress' : C3_Step(s)]_vars

\* C3's case: a run has ended in error, and the progress is 0.
C3_Witness ==
    \E s \in DOMAIN analysis_progress :
       /\ analysis_progress[s].status = "error"
       /\ analysis_progress[s].progress = 0
       /\ analysis_progress[s].error = "FileNotFoundError"

\* C4: within one run (no start request is accepted in the step) the progress a
\* poller can observe until the run reaches completed never decreases, and it is
\* 100 when the status is completed.
C4_ProgressNonDecreasing ==
    [][\A s \in Uploaded \cap DOMAIN analysis_progress \cap DOMAIN analysis_progress' :
          (launched'[s] = launched[s] /\ analysis_progress'[s].status # "error")
          => /\ analysis_progress'[s].progress >= analysis_progress[s].progress
             /\ analysis_progress'[s].status = "completed"
                   => analysis_progress'[s].progress = 100]_vars

\* The place of a status along starting -> processing -> (completed | error).
StatusRank(status) ==
    CASE status = "starting" -> 0 [] status = "processing" -> 1 [] OTHER -> 2

\* C5: within one run (no start request is accepted in the step) the status only
\* moves forward along starting -> processing -> (completed | error), and a
\* terminal status is not changed again.
C5_StatusOnlyForward ==
    [][\A s \in Uploaded \cap DOMAIN analysis_progress \cap DOMAIN analysis_progress' :
          launched'[s] = launched[s]
          => /\ StatusRank(analysis_progress'[s].status)
                   >= StatusRank(analysis_progress[s].status)
             /\ analysis_progress[s].status \in {"completed", "error"}
                   => analysis_progress'[s].status = analysis_progress[s].status]_vars

\* The reply of analyze_files to a request it treats as a no-op.
InProgressReply(s) ==
    Response("analyze", s, 200,
             [session_id |-> s, message |-> <<"Analysis already in progress">>,
              status |-> "processing"])

\* C6: a start-analysis request whose in-progress test finds the status
\* processing is a no-op: it replies with status processing, leaves every field
\* of the AnalysisState unchanged and launches no background run, so that no
\* extraction is invoked on its behalf.
C6_AnalyzeWhileProcessingIsNoOp ==
    [][\A s \in Sessions :
          (/\ analyzing[s] = "folder_ok"
           /\ analyzing'[s] # "folder_ok"
           /\ StatusOf(analysis_progress, s) = "processing")
          => /\ reply' = InProgressReply(s)
             /\ analyzing'[s] = "idle"
             /\ UNCHANGED <<analysis_progress, threads, launched, folder>>]_vars

\* C6's case: a request has been answered "already in progress" while a run is
\* processing.
C6_Witness ==
    \E s \in Sessions :
       /\ reply = InProgressReply(s)
       /\ StatusOf(analysis_progress, s) = "processing"
       /\ ActiveRuns(s) = 1

\* The texts of the FileResults that are not empty after trimming, in order.
RECURSIVE NonEmptyTexts(_)
NonEmptyTexts(results) ==
    IF results = <<>> THEN <<>>
    ELSE IF Truthy(Strip(Head(results).content))
         THEN <<Head(results).content>> \o NonEmptyTexts(Tail(results))
         ELSE NonEmptyTexts(Tail(results))

\* C7: no snapshot is partially written: one with status completed carries the
\* results, the overall score and the aggregated text of one run, and one with a
\* non-terminal status carries none of them.
C7_NoPartialState ==
    \A s \in Uploaded \cap DOMAIN analysis_progress :
       LET e == analysis_progress[s]
       IN /\ e.status = "completed"
                => /\ "all_content" \in DOMAIN e
                   /\ e.all_content = Join(Separator, NonEmptyTexts(e.results))
                   /\ e.overall_score = OverallScore(e.results)
          /\ e.status \in {"starting", "processing"}
                => /\ e.results = <<>>
                   /\ e.overall_score = Zero
                   /\ "all_content" \notin DOMAIN e

\* C8: after the cleanup of its session a run's writes to the store are silent
\* no-ops: no write raises (here KeyError), and no step of a run creates a store
\* entry (only an accepted start request does), so its result is discarded.
C8_WriteToDeletedKeyIsSilent ==
    /\ [](\A t \in BagToSet(threads) : t.session_id \in Uploaded => t.exc # "KeyError")
    /\ [][\A s \in Sessions :
             (s \in DOMAIN analysis_progress' /\ s \notin DOMAIN analysis_progress)
             => launched'[s] = launched[s] + 1]_vars

\* C9 as claimed: every session created by an upload and not yet cleaned up owns
\* an AnalysisState, so that get-progress answers NotFound for unknown sessions only.
C9_EverySessionHasState ==
    /\ \A s \in DOMAIN folder : issued[s] => s \in DOMAIN analysis_progress
    /\ (reply.op = "progress" /\ reply.code = 404) => reply.sid \notin DOMAIN folder

\* C9 as amended: a session has an AnalysisState only once a start-analysis
\* request for it has been accepted, and from then on until its cleanup;
\* get-progress answers NotFound exactly when the store holds no entry for the
\* identifier, which includes an uploaded session not analyzed yet, and the
\* stored state otherwise.
C9_StateOnlyAfterAnalyze ==
    /\ \A s \in DOMAIN analysis_progress : launched[s] >= 1
    /\ \A s \in DOMAIN folder : launched[s] >= 1 => s \in DOMAIN analysis_progress
    /\ reply.op = "progress" =>
          /\ reply.code = 404 <=> reply.sid \notin DOMAIN analysis_progress
          /\ reply.code = 200 => reply.body = analysis_progress[reply.sid]

\* C9's case: get-progress has answered NotFound for a session whose upload was
\* accepted and which has not been cleaned up.
C9_Witness ==
    /\ reply.op = "progress"
    /\ reply.code = 404
    /\ reply.sid \in DOMAIN folder
    /\ issued[reply.sid]

\* The indices of the FileResults with a score strictly greater than 0.
Positive(results) == {j \in 1..Len(results) : results[j].score.n > 0}

\* The sum of the scores at the indices S.
RECURSIVE ScoreSum(_, _)
ScoreSum(results, S) ==
    IF S = {} THEN Zero
    ELSE LET j == CHOOSE x \in S : TRUE
         IN RatAdd(results[j].score, ScoreSum(results, S \ {j}))

\* C10: when a run has completed, the stored overall score is the arithmetic mean
\* of exactly the FileResult scores that are strictly greater than 0, and 0 when
\* there is none.
C10_OverallScoreIsMeanOfPositive ==
    \A s \in DOMAIN analysis_progress :
       LET e == analysis_progress[s]
           P == Positive(e.results)
       IN e.status = "completed" =>
             IF P = {} THEN e.overall_score = Zero
             ELSE RatMulInt(e.overall_score, Cardinality(P)) = ScoreSum(e.results, P)

\* C10's case: a completed run with an errored file, a file of score 0 and a
\* file of positive score.
C10_Witness ==
    \E s \in DOMAIN analysis_progress :
       LET e == analysis_progress[s]
       IN /\ e.status = "completed"
          /\ Len(e.results) = 2
          /\ e.results[1].score = Zero
          /\ e.results[2].score.n > 0
          /\ e.overall_score = e.results[2].score

\* A blank line, the separator the specification names for the aggregated text.
BlankLine == <<[c |-> "nl", n |-> 2]>>

\* A text is non-empty: it has at least one character.
NonEmpty(text) == StrLen(text) > 0

\* A text is non-empty after trimming: it has a character that is not whitespace.
NonBlank(text) == StrLen(Strip(text)) > 0

\* Whether a text contributes to the aggregate: when it is non-empty, or, with
\* trimmed, when it is non-empty after trimming.
Contributes(text, trimmed) == IF trimmed THEN NonBlank(text) ELSE NonEmpty(text)

\* The texts among the first k FileResults that contribute, in order, each
\* separated from the one before by a blank line.
RECURSIVE Aggregate(_, _, _)
Aggregate(results, k, trimmed) ==
    IF k = 0 THEN <<>>
    ELSE LET before == Aggregate(results, k - 1, trimmed)
             text == results[k].content
         IN IF ~Contributes(text, trimmed) THEN before
            ELSE IF \A j \in 1..(k - 1) : ~Contributes(results[j].content, trimmed)
                 THEN text
                 ELSE Cat(Cat(before, BlankLine), text)

\* C11 as claimed: when a run completes, the aggregated text is the concatenation,
\* with a blank-line separator, of the texts of exactly those FileResults whose
\* text is non-empty, in file-processing order.
C11_AggregateOfNonEmptyTexts ==
    \A s \in DOMAIN analysis_progress :
       LET e == analysis_progress[s]
       IN e.status = "completed"
             => e.all_content = Aggregate(e.results, Len(e.results), FALSE)

\* C11 as amended: the aggregated text is the concatenation, with a blank-line
\* separator, of the texts of exactly those FileResults whose text is non-empty
\* after trimming whitespace, each text untrimmed and in file-processing order;
\* errored files, files with empty text and files with whitespace-only text
\* contribute nothing and no separator.
C11_AggregateOfNonBlankTexts ==
    \A s \in DOMAIN analysis_progress :
       LET e == analysis_progress[s]
       IN e.status = "completed"
             => /\ "all_content" \in DOMAIN e
                /\ e.all_content = Aggregate(e.results, Len(e.results), TRUE)

\* C11's case: a completed run with a whitespace-only text before a text that
\* contributes, and a completed run with two texts that contribute.
C11_Witness ==
    \E s \in DOMAIN analysis_progress :
       LET e == analysis_progress[s]
       IN /\ e.status = "completed"
          /\ Len(e.results) = 2
          /\ NonBlank(e.results[2].content)
          /\ e.results[1].status # "error"
          /\ NonEmpty(e.results[1].content)
          /\ ~NonBlank(e.results[1].content)
          /\ e.all_content = e.results[2].content

\* C11's second case: two texts joined by the separator.
C11_WitnessJoined ==
    \E s \in DOMAIN analysis_progress :
       LET e == analysis_progress[s]
       IN /\ e.status = "completed"
          /\ Len(e.results) = 2
          /\ NonBlank(e.results[1].content)
          /\ NonBlank(e.results[2].content)
          /\ StrLen(e.all_content)
                = StrLen(e.results[1].content) + 2 + StrLen(e.results[2].content)

\* The AnalysisState a run-level fault e leaves: terminal status error, progress 0,
\* and the fault detail in both the message and the error field.
ShowsFault(state, e) ==
    /\ state.status = "error"
    /\ state.progress = 0
    /\ state.error = e
    /\ state.message = <<"Analysis failed: ", e>>

\* C12: a run out of whose per-file loop a fault escapes (one with the fault
\* pending in the outer except clause) ends with its step there, and that step
\* leaves the session's AnalysisState in terminal status error with progress 0
\* and the fault detail in message and error; the run never writes completed.
C12_FaultEndsRunInError ==
    [][\A t \in BagToSet(threads) :
          (/\ t.pc = "except" /\ threads' # threads /\ threads' = Without(t)
           /\ t.session_id \in Uploaded)
          => /\ t.session_id \in DOMAIN analysis_progress'
             /\ ShowsFault(analysis_progress'[t.session_id], t.exc)]_vars

\* C12 where the session's store entry still exists when the fault is handled.
C12_FaultWithEntryEndsInError ==
    [][\A t \in BagToSet(threads) :
          (/\ t.pc = "except" /\ threads' # threads /\ threads' = Without(t)
           /\ t.session_id \in DOMAIN analysis_progress)
          => /\ t.session_id \in DOMAIN analysis_progress'
             /\ ShowsFault(analysis_progress'[t.session_id], t.exc)]_vars

\* C12's failing case: a run whose fault is pending while its session has no
\* store entry left.
C12_FaultWithoutEntry ==
    \E t \in BagToSet(threads) :
       t.pc = "except" /\ t.session_id \notin DOMAIN analysis_progress

\* An identifier is unknown: it has neither a session folder nor a store entry
\* (never generated by an upload, or cleaned up).
Unknown(s) == s \notin DOMAIN folder /\ s \notin DOMAIN analysis_progress

\* The NotFound reply of an operation.
NotFound(op, s) == Response(op, s, 404, [error |-> <<"Session not found">>])

\* C15: a start-analysis request and a get-progress request arriving for an
\* unknown session identifier are answered NotFound in that very step, and the
\* step creates no store entry and launches no run.
C15_UnknownSessionIsNotFound ==
    [][\A s \in Sessions :
          Unknown(s) =>
             /\ analyzing[s] = "idle" =>
                   /\ analyzing'[s] = "idle"
                   /\ (reply'.op = "analyze" /\ reply'.sid = s) => reply' = NotFound("analyze", s)
             /\ (reply'.op = "progress" /\ reply'.sid = s) => reply' = NotFound("progress", s)
             /\ (reply'.op \in {"analyze", "progress"} /\ reply'.sid = s /\ reply'.code = 404)
                   => UNCHANGED <<folder, analysis_progress, threads, launched>>]_vars

\* C15's case: start-analysis has been answered NotFound for an identifier that
\* is still unknown, with nothing stored and no run launched for it.
C15_Witness ==
    \E s \in Sessions :
       /\ reply = NotFound("analyze", s)
       /\ Unknown(s)
       /\ launched[s] = 0

\* C19: a start request accepted on a session whose state is terminal replaces
\* the state wholesale (status starting, progress 0, no results, overall score 0,
\* no error detail, no aggregated text), and the run it launches is the only run
\* of the session from then on, so that nothing an earlier run computed is
\* written into a later snapshot.
C19_NewRunReplacesState ==
    [][\A s \in Uploaded :
          (/\ launched'[s] = launched[s] + 1
           /\ StatusOf(analysis_progress, s) \in {"completed", "error"})
          => /\ analysis_progress'[s] = InitialState(s)
             /\ "all_content" \notin DOMAIN analysis_progress'[s]
             /\ ActiveRuns(s) = 0]_vars

\* C19, the replacement alone: every accepted start request leaves the state a
\* fresh one, with nothing of the state it replaces.
C19_StartStoresFreshState ==
    [][\A s \in Uploaded :
          launched'[s] = launched[s] + 1
          => /\ analysis_progress'[s] = InitialState(s)
             /\ "all_content" \notin DOMAIN analysis_progress'[s]]_vars

\* C19's failing case: a start request has been accepted on a completed state
\* while an earlier run of the session is still to write its results.
C19_EarlierRunStillActive ==
    \E s \in Uploaded :
       /\ launched[s] = 3
       /\ StatusOf(analysis_progress, s) = "starting"
       /\ ActiveRuns(s) = 2

\* Every FileResult there is: those the runs hold and those stored.
AllFileResults ==
    UNION {{t.file_results[j] : j \in 1..Len(t.file_results)} : t \in BagToSet(threads)}
    \cup UNION {{analysis_progress[s].results[j] : j \in 1..Len(analysis_progress[s].results)}
                  : s \in DOMAIN analysis_progress}

\* The FileResult of a successful extraction carries no error message.
Successful(r) == "error" \notin DOMAIN r

\* The score n/d is min(100, L/1000*100) and the bucket is the one of that score.
ScoredAs(r, L) ==
    LET n == r.score.n
        d == r.score.d
    IN /\ IF L >= 1000 THEN n = 100 * d ELSE n * 10 = L * d
       /\ 0 <= n /\ n <= 100 * d
       /\ r.status = "green" <=> n >= 80 * d
       /\ r.status = "yellow" <=> (30 * d <= n /\ n < 80 * d)
       /\ r.status = "red" <=> n < 30 * d
       /\ r.status # "error"

\* C18: for every successfully extracted text of trimmed length L the score of
\* the FileResult is min(100, L/1000*100), within [0,100], and its bucket is green
\* iff score >= 80, yellow iff 30 <= score < 80 and red otherwise, never error.
C18_ScoreAndBucket ==
    \A r \in AllFileResults : Successful(r) => ScoredAs(r, StrLen(Strip(r.content)))

\* C18's case: a completed run whose text has 500 characters between a leading
\* blank and a trailing line break, scored 50 and put in bucket yellow.
C18_Witness ==
    \E s \in DOMAIN analysis_progress :
       LET e == analysis_progress[s]
       IN /\ e.status = "completed"
          /\ Len(e.results) = 1
          /\ Successful(e.results[1])
          /\ StrLen(e.results[1].content) = 502
          /\ StrLen(Strip(e.results[1].content)) = 500
          /\ e.results[1].score = Rat(50, 1)
          /\ e.results[1].status = "yellow"

\* The runs of a session.
ThreadsOf(s) == {t \in BagToSet(threads) : t.session_id = s}

\* What a session owns: its AnalysisState and its file set (none, or one).
StateOf(s) == {analysis_progress[x] : x \in DOMAIN analysis_progress \cap {s}}

FilesOf(s) == {folder[x] : x \in DOMAIN folder \cap {s}}

\* A step of an operation on session s: of a request that names s, or of a run
\* of s (its transcription job included).
StepOn(s) ==
    \/ reply'.op # "none" /\ reply'.sid = s
    \/ analyzing'[s] # analyzing[s]
    \/ (s \in cleaning') # (s \in cleaning)
    \/ \E t \in ThreadsOf(s) \cup ThreadsOf(s)' :
          CopiesIn(t, threads') # CopiesIn(t, threads)

\* C14, the frame: the AnalysisState and the file set of a session change only
\* in steps of operations on that session.
C14_Frame ==
    [][\A b \in Sessions :
          (StateOf(b)' # StateOf(b) \/ FilesOf(b)' # FilesOf(b)) => StepOn(b)]_vars

\* C14, the text: what is transcribed for a run is a recording of its own
\* session, and the text extracted for an audio file of a session is the
\* transcript of that session's recording.
C14_OwnText ==
    /\ \A t \in BagToSet(threads) :
          /\ t.pc = "poll" => t.job.session = t.session_id
          /\ \A j \in 1..Len(t.file_results) :
                (Successful(t.file_results[j]) /\ t.file_results[j].file_type = "audio")
                => t.file_results[j].content
                      = Transcript(Recording(t.session_id, t.file_results[j].filename))
    /\ \A s \in DOMAIN analysis_progress :
          \A j \in 1..Len(analysis_progress[s].results) :
             LET r == analysis_progress[s].results[j]
             IN (Successful(r) /\ r.file_type = "audio")
                   => r.content = Transcript(Recording(s, r.filename))

\* C14: sessions are independent: no operation on a session (start analysis, its
\* run with the audio upload and the transcription, poll, cleanup) changes the
\* AnalysisState, the file set or the extracted text of another session.
C14_SessionsIndependent == [](C14_OwnText) /\ C14_Frame

\* A run is waiting for its transcription job.
Polling == \E t \in BagToSet(threads) : t.pc = "poll"

\* C13: the wait on the transcription job is bounded: a run that waits for its
\* job eventually stops waiting (the transcription having failed for that file
\* if the job never reports done) and goes on with the loop.
C13_TranscriptionWaitBounded == Polling ~> ~Polling

\* C13 for the jobs that do report done: the run eventually leaves the wait.
C13_WaitEndsOnceJobDone ==
    (\E t \in BagToSet(threads) : t.pc = "poll" /\ t.done) ~> ~Polling

\* The acknowledgement of a cleanup.
CleanedUp(s) ==
    Response("cleanup", s, 200, [message |-> <<"Session cleaned up successfully">>])

\* A step of a cleanup request for s: it starts (the folder removal) or it ends
\* (the store removal and the reply).
CleanupStarts(s) == s \notin cleaning /\ s \in cleaning'

CleanupEnds(s) == s \in cleaning /\ s \notin cleaning'

\* C16: cleanup never fails on a missing session. Every cleanup ends with the
\* success acknowledgement and leaves the identifier unknown; on an identifier
\* that is unknown already (never created, or cleaned up before) it changes
\* nothing, so that a second cleanup leaves the state the first one left; and no
\* step of a cleanup changes the state, the files or the runs of another session.
C16_CleanupOfMissingSession ==
    [][\A s \in Sessions :
          /\ CleanupEnds(s) => (reply' = CleanedUp(s) /\ Unknown(s)')
          /\ reply'.op = "cleanup" => reply'.code = 200
          /\ ((CleanupStarts(s) \/ CleanupEnds(s)) /\ Unknown(s))
                => UNCHANGED <<folder, analysis_progress, threads, launched, gcs>>
          /\ (CleanupStarts(s) \/ CleanupEnds(s))
                => \A b \in Sessions \ {s} :
                      /\ StateOf(b)' = StateOf(b)
                      /\ FilesOf(b)' = FilesOf(b)
                      /\ ThreadsOf(b)' = ThreadsOf(b)]_vars

\* C16's case: a cleanup of an identifier no upload ever generated has been
\* acknowledged while another session has its files and its state.
C16_Witness ==
    \E s \in Sessions, b \in Sessions :
       /\ reply = CleanedUp(s)
       /\ s \notin DOMAIN issued
       /\ b # s
       /\ b \in DOMAIN folder
       /\ b \in DOMAIN analysis_progress

\* C16's second case: a cleanup of a session cleaned up before.
C16_WitnessTwice ==
    \E s \in Sessions :
       /\ reply = CleanedUp(s)
       /\ s \in DOMAIN issued
       /\ launched[s] = 1
       /\ ThreadsOf(s) = {}
       /\ Unknown(s)

\* The reply r refuses with this code and this error text.
Refusal(r, code, error) == r.code = code /\ r.body = [error |-> <<error>>]

\* The reply r carries the outline generated from this content for the request
\* r answers.
OutlineFrom(r, content) ==
    /\ r.code = 200
    /\ r.content = content
    /\ r.body.course_structure =
          generate_course_structure(content, Strip(r.request.course_title),
                                    Strip(r.request.additional_notes))
    /\ r.body.content_length = StrLen(content)

\* The content a request without content of its own and without a session
\* generates from: its notes, or the fixed sentence.
FromNotes(request) ==
    IF Truthy(Strip(request.additional_notes)) THEN Strip(request.additional_notes)
    ELSE Str("General course content based on the provided title.")

\* A generate-course request changes nothing of any session.
GenerateChangesNothing ==
    reply'.op = "generate"
       => UNCHANGED <<folder, analysis_progress, threads, launched, issued, analyzing,
                      cleaning, gcs>>

\* C17 as the table reads: a request without a title is refused as invalid; one
\* naming an unknown session is refused NotFound; one naming a session whose
\* analysis is not completed is refused NotReady; one whose resolved content is
\* empty is refused NoContent; every other request gets an outline; and no
\* outcome changes any session state.
C17_OutcomeTable ==
    /\ [](reply.op = "generate" =>
            LET request == reply.request
                sid == request.session_id
                explicit == Strip(request.extracted_content)
                stored == IF sid \in DOMAIN analysis_progress
                             /\ "all_content" \in DOMAIN analysis_progress[sid]
                          THEN analysis_progress[sid].all_content ELSE <<>>
                resolved == IF Truthy(explicit) THEN explicit
                            ELSE IF sid # None THEN stored
                            ELSE FromNotes(request)
            IN IF ~Truthy(Strip(request.course_title))
               THEN Refusal(reply, 400, "Course title is required")
               ELSE IF sid # None /\ Unknown(sid)
               THEN Refusal(reply, 404, "Session not found")
               ELSE IF sid # None /\ StatusOf(analysis_progress, sid) # "completed"
               THEN Refusal(reply, 400, "Analysis not completed yet")
               ELSE IF ~Truthy(resolved)
               THEN Refusal(reply, 400, "No analyzed content available")
               ELSE OutlineFrom(reply, resolved))
    /\ [][GenerateChangesNothing]_vars

\* C17 as the code decides, in this order: a title empty after trimming is
\* refused as invalid; content sent along and not empty after trimming is
\* generated from, whatever session the request names; otherwise a named
\* session without a store entry is refused NotFound, one whose status is not
\* completed NotReady, one whose aggregated text is empty NoContent, and any
\* other is generated from its aggregated text; a request with neither is
\* generated from its notes or the fixed sentence. No outcome changes any
\* session state.
C17_OutcomeByPrecedence ==
    /\ [](reply.op = "generate" =>
            LET request == reply.request
                sid == request.session_id
                explicit == Strip(request.extracted_content)
            IN IF ~Truthy(Strip(request.course_title))
               THEN Refusal(reply, 400, "Course title is required")
               ELSE IF Truthy(explicit) THEN OutlineFrom(reply, explicit)
               ELSE IF sid # None
               THEN IF sid \notin DOMAIN analysis_progress
                    THEN Refusal(reply, 404, "Session not found")
                    ELSE IF analysis_progress[sid].status # "completed"
                    THEN Refusal(reply, 400, "Analysis not completed yet")
                    ELSE IF ~Truthy(analysis_progress[sid].all_content)
                    THEN Refusal(reply, 400, "No analyzed content available")
                    ELSE OutlineFrom(reply, analysis_progress[sid].all_content)
               ELSE OutlineFrom(reply, FromNotes(request)))
    /\ [][GenerateChangesNothing]_vars

\* C17's case: a request with a title, with content of its own and naming a
\* session that has no store entry has been answered with an outline.
C17_Witness ==
    /\ reply.op = "generate"
    /\ reply.code = 200
    /\ Truthy(Strip(reply.request.extracted_content))
    /\ reply.request.session_id # None
    /\ reply.request.session_id \notin DOMAIN analysis_progress

\* C17's other cases: each refusal has been returned once.
C17_WitnessNotReady ==
    /\ reply.op = "generate"
    /\ Refusal(reply, 400, "Analysis not completed yet")

C17_WitnessNoContent ==
    /\ reply.op = "generate"
    /\ Refusal(reply, 400, "No analyzed content available")

Outlined == reply.op = "generate" /\ reply.code = 200

\* What the outline of the reply was generated from, and its parts.
OutlineContent == reply.content

OutlineTitle == Strip(reply.request.course_title)

OutlineNotesSent == Strip(reply.request.additional_notes)

KeyTopics == reply.body.course_structure.key_topics

\* The domain-flag topics and the fallback topics.
FlagTopics ==
    Strs(<<"mathematics", "calculations", "formulas", "methods", "techniques",
           "procedures", "problem-solving", "optimization", "solutions">>)

FallbackTopics == Strs(<<"fundamentals", "principles", "applications">>)

FixedTopics == Elems(FlagTopics) \cup Elems(FallbackTopics)

\* The lower-cased words of the title.
TitleWords == Split(Lower(OutlineTitle))

\* How often a word is a token of content + notes, lower-cased and without its
\* punctuation.
Occurrences(word) ==
    LET tokens == Split(Lower(FullContent(OutlineContent, OutlineNotesSent)))
    IN Cardinality({j \in 1..Len(tokens) : clean_word(tokens[j]) = word})

\* C21 as claimed: no key topic is a stop-word or has 3 characters or fewer,
\* apart from the fixed domain-flag and fallback topics.
C21_NoStopWordOrShortTopic ==
    Outlined =>
        \A topic \in Elems(KeyTopics) :
            topic \in FixedTopics \/ (StrLen(topic) > 3 /\ topic \notin StopWords)

\* C21 as the code has it: no key topic has 3 characters or fewer; a key topic
\* that is neither a fixed topic nor a word of the title is a token of content +
\* notes that occurs more than once, is made of letters and digits and is not a
\* stop-word. A word of the title is taken for its length alone.
C21_TopicsQualify ==
    Outlined =>
        \A topic \in Elems(KeyTopics) :
            /\ StrLen(topic) > 3
            /\ \/ topic \in FixedTopics
               \/ topic \in Elems(TitleWords)
               \/ /\ topic \notin StopWords
                  /\ \A j \in 1..Len(topic) : IsAlnum(topic[j].c)
                  /\ Occurrences(topic) > 1

\* An outline whose key topics hold a repeated token of the content and a
\* stop-word of the title.
C21_Witness ==
    /\ Outlined
    /\ Runs(<<"f", "a", "s", "t">>) \in Elems(KeyTopics)
    /\ Str("with") \in Elems(KeyTopics)
    /\ Str("with") \in StopWords

\* C22: the duration estimate of w words has hours = floor(w / 4800) and minutes =
\* floor(w / 80) mod 60, written "<hours> hours <minutes> minutes" when hours >= 1
\* and "<minutes> minutes" otherwise; 200 words give "2 minutes".
C22_DurationFloors ==
    reply.op = "duration" =>
        LET w == reply.word_count
            hours == w \div 4800
            minutes == (w \div 80) % 60
        IN /\ reply.estimated_duration =
                 IF hours >= 1
                 THEN Fmt("{hours} hours {minutes} minutes", <<Dec(hours), Dec(minutes)>>)
                 ELSE Fmt("{minutes} minutes", <<Dec(minutes)>>)
           /\ w = 200 =>
                 reply.estimated_duration =
                     Fmt("{minutes} minutes", <<<<[c |-> "2", n |-> 1]>>>>)

\* The estimate of 4,999 words: 62.4875 minutes, written as 1 hours 2 minutes.
C22_Witness ==
    /\ reply.op = "duration"
    /\ reply.word_count = 4999
    /\ reply.estimated_duration =
          Fmt("{hours} hours {minutes} minutes",
              <<<<[c |-> "1", n |-> 1]>>, <<[c |-> "2", n |-> 1]>>>>)

\* The run t makes its final update in this step.
Completes(t) ==
    /\ t.pc = "update"
    /\ t.session_id \in DOMAIN analysis_progress
    /\ threads' = Without(t)
    /\ t.session_id \in DOMAIN analysis_progress'
    /\ analysis_progress'[t.session_id].status = "completed"

\* C23: the result sequence a completing run stores has exactly one FileResult
\* for every file the run enumerated at its start, in enumeration order: as many
\* results as files, the j-th result being that of the j-th file.
C23_OneResultPerFile ==
    [][\A t \in BagToSet(threads) :
          Completes(t) =>
             LET results == analysis_progress'[t.session_id].results
             IN /\ Len(results) = Len(t.files)
                /\ \A j \in 1..Len(results) : results[j].filename = t.files[j]]_vars

\* C23 for the files whose saved name has a supported extension: the results of
\* a completing run are those of these files, one each, in enumeration order.
C23_OneResultPerTypedFile ==
    [][\A t \in BagToSet(threads) :
          Completes(t) =>
             LET results == analysis_progress'[t.session_id].results
                 typed == SelectSeq(t.files, LAMBDA f : get_file_type(f) # "None")
             IN /\ Len(results) = Len(typed)
                /\ \A j \in 1..Len(results) : results[j].filename = typed[j]]_vars

\* A completed session whose folder holds two files and whose results hold one.
C23_FileSkipped ==
    \E s \in DOMAIN analysis_progress \cap DOMAIN folder :
       /\ analysis_progress[s].status = "completed"
       /\ Len(folder[s]) = 2
       /\ Len(analysis_progress[s].results) = 1

\* The run t takes a step in its per-file loop, at the file of 0-based index t.i.
LoopStep(t) ==
    /\ t.pc = "loop"
    /\ t.i < Len(t.files)
    /\ \E u \in BagToSet(threads') : u # t /\ threads' = Becomes(t, u)
    /\ t.session_id \in DOMAIN analysis_progress

\* p = floor(i / total * 80), said without a division.
IsFloorOfShare(p, i, total) == p * total <= i * 80 /\ i * 80 < (p + 1) * total

\* The steps of C24: a loop step at index i of total files leaves progress
\* floor(i / total * 80), a value of 0..79; the progress of a state becomes 100
\* only by a step of a run that is past its last file (its finalization).
C24_Step ==
    /\ \A t \in BagToSet(threads) :
          LoopStep(t) =>
             LET p == analysis_progress'[t.session_id].progress
             IN p \in 0..79 /\ IsFloorOfShare(p, t.i, Len(t.files))
    /\ \A s \in DOMAIN analysis_progress' :
          (/\ analysis_progress'[s].progress = 100
           /\ s \in DOMAIN analysis_progress => analysis_progress[s].progress # 100)
          => \E t \in BagToSet(threads) :
                /\ t.session_id = s
                /\ t.pc \in {"loop", "update"}
                /\ t.i = Len(t.files)
                /\ threads' # threads
                /\ \E u \in BagToSet(threads') \cup {t} :
                      threads' = Becomes(t, u) \/ threads' = Without(t)

\* C24: while a run processes the file at index i of total files the progress
\* it writes is floor(i / total * 80), so below 80; progress reaches 100 only at
\* finalization; the stored progress is always a whole number of 0..100.
C24_ProgressOfLoop ==
    /\ [](\A s \in DOMAIN analysis_progress : analysis_progress[s].progress \in 0..100)
    /\ [][C24_Step]_vars

\* A run of three files past its second file (index 1), whose step wrote
\* progress 26, the floor of 26.67.
C24_Witness ==
    \E t \in BagToSet(threads) :
       /\ t.pc = "loop" /\ t.i = 2 /\ Len(t.files) = 3
       /\ t.session_id \in DOMAIN analysis_progress
       /\ analysis_progress[t.session_id].progress = 26
       /\ analysis_progress[t.session_id].status = "processing"

Modules == reply.body.course_structure.modules

\* The sections of a text: its pieces between empty lines that are not blank.
\* A piece starts at a character that is not whitespace and has either nothing
\* but whitespace before it or two line breaks in a row right before it, with
\* nothing but whitespace in between.
SectionCount(text) ==
    LET solid(j) == ~IsSpace(text[j].c)
        before(j) == {i \in 1..(j - 1) : solid(i)}
        gap(j) == {i \in 1..(j - 1) : \A h \in before(j) : h < i}
    IN Cardinality({j \in 1..Len(text) :
                      /\ solid(j)
                      /\ \/ before(j) = {}
                         \/ \E i \in gap(j) : text[i].c = "nl" /\ text[i].n >= 2})

Clamp(x, low, high) == IF x < low THEN low ELSE IF x > high THEN high ELSE x

\* C25: every outline has 3 to 6 modules, numbered from 1 in order, each of
\* exactly 4 topics and of estimated time "2-3 hours"; with k >= 3 key topics
\* there are min(k, 6) modules, the i-th named after the i-th topic; with fewer
\* than 3 key topics there are clamp(sectionCount / 2, 3, 6) modules, none
\* named after a topic.
C25_ModulesOfOutline ==
    Outlined =>
        LET k == Len(KeyTopics)
            count == Len(Modules)
        IN /\ count \in 3..6
           /\ \A i \in 1..count :
                 /\ Modules[i].module_number = i
                 /\ Len(Modules[i].topics) = 4
                 /\ Modules[i].estimated_time = "2-3 hours"
           /\ k >= 3 =>
                 /\ count = Clamp(k, 0, 6)
                 /\ \A i \in 1..count :
                       Modules[i].title =
                           Fmt("Module {i + 1}: {topic.capitalize()}",
                               <<Dec(i), Capitalize(KeyTopics[i])>>)
           /\ k < 3 =>
                 /\ count = Clamp(SectionCount(OutlineContent) \div 2, 3, 6)
                 /\ \A i \in 1..count :
                       /\ Modules[i].title.args \in {<<>>, <<Dec(i)>>}
                       /\ Modules[i].title.template # "Module {i + 1}: {topic.capitalize()}"

\* An outline of one key topic for a content of eight sections: four modules.
C25_Witness ==
    /\ Outlined
    /\ Len(KeyTopics) = 1
    /\ SectionCount(OutlineContent) = 8
    /\ Len(Modules) = 4

\* An outline of ten key topics: six modules.
C25_WitnessSix ==
    /\ Outlined
    /\ Len(KeyTopics) = 10
    /\ Len(Modules) = 6

\* The repeated-token candidates of the outline's text.
Candidates == RepeatedWords(FullContent(OutlineContent, OutlineNotesSent))

\* The topics C26 describes: the candidates alone when there are 3 or more of
\* them; otherwise the candidates, then the words of the title longer than 3
\* characters that are not already present, then the topic triples of the true
\* signals, then the fallbacks if the list is still under 3; first occurrences
\* only, the first 10.
SupplementedAsClaimed ==
    LET fresh(list) == {j \in 1..Len(list) :
                          /\ StrLen(list[j]) > 3
                          /\ list[j] \notin Elems(Candidates)
                          /\ \A i \in 1..(j - 1) : list[i] # list[j]}
        from_title == Pick(TitleWords, fresh(TitleWords))
        math == IF has_math(OutlineContent) \/ has_formulas(OutlineContent)
                THEN SubSeq(FlagTopics, 1, 3) ELSE <<>>
        methods == IF has_methods(OutlineContent) THEN SubSeq(FlagTopics, 4, 6) ELSE <<>>
        problems == IF has_problems(OutlineContent) THEN SubSeq(FlagTopics, 7, 9) ELSE <<>>
        extended == Candidates \o from_title \o math \o methods \o problems
        list == IF Len(Candidates) >= 3 THEN Candidates
                ELSE IF Len(extended) < 3 THEN extended \o FallbackTopics
                ELSE extended
        first == {j \in 1..Len(list) : \A i \in 1..(j - 1) : list[i] # list[j]}
        kept == {j \in first : Cardinality({i \in first : i < j}) < 10}
    IN Pick(list, kept)

\* The title of the outline has a word longer than 3 characters twice.
TitleRepeatsWord ==
    \E i, j \in 1..Len(TitleWords) :
        i < j /\ TitleWords[i] = TitleWords[j] /\ StrLen(TitleWords[i]) > 3

\* C26: the key topics are the candidates, supplemented when there are fewer
\* than 3 of them by the title words not already present, the domain-flag
\* triples and, if the list is still under 3, the fallbacks, in this order; the
\* list has no duplicates, keeps first-occurrence order and at most 10 entries.
C26_SupplementedInOrder ==
    Outlined =>
        /\ KeyTopics = SupplementedAsClaimed
        /\ Len(KeyTopics) <= 10
        /\ \A i, j \in 1..Len(KeyTopics) : i # j => KeyTopics[i] # KeyTopics[j]

\* C26 for the titles that do not repeat a word.
C26_SupplementedUnlessRepeated ==
    (Outlined /\ ~TitleRepeatsWord) =>
        /\ KeyTopics = SupplementedAsClaimed
        /\ Len(KeyTopics) <= 10
        /\ \A i, j \in 1..Len(KeyTopics) : i # j => KeyTopics[i] # KeyTopics[j]

\* An outline of a title that repeats a word, with a single key topic where the
\* fallbacks were due.
C26_FallbacksMissing ==
    /\ Outlined
    /\ TitleRepeatsWord
    /\ Len(KeyTopics) = 1
    /\ Len(SupplementedAsClaimed) = 4

Objectives == reply.body.course_structure.learning_objectives

\* The 4 baseline objectives, and the 5 conditional objectives with the words
\* whose presence in the lower-cased content is their signal.
BaselineObjectives ==
    <<Fmt("Understand the fundamental concepts presented in the course material", <<>>),
      Fmt("Apply key principles to practical scenarios", <<>>),
      Fmt("Analyze and evaluate different approaches and methodologies", <<>>),
      Fmt("Demonstrate comprehension through practical application", <<>>)>>

ConditionalObjectives ==
    <<[signal |-> {"problem", "solution", "solve"},
       objective |-> Fmt("Develop problem-solving skills and analytical thinking", <<>>)],
      [signal |-> {"method", "algorithm", "procedure", "technique"},
       objective |-> Fmt("Master specific methods and techniques relevant to the subject", <<>>)],
      [signal |-> {"formula", "equation", "calculation"},
       objective |-> Fmt("Apply mathematical concepts and perform accurate calculations", <<>>)],
      [signal |-> {"application", "implement", "practice"},
       objective |-> Fmt("Implement concepts in real-world applications and scenarios", <<>>)],
      [signal |-> {"theory", "principle", "concept"},
       objective |-> Fmt("Comprehend theoretical foundations and underlying principles", <<>>)]>>

\* The conditional objectives whose signal is true for the outline's content.
SignalledObjectives ==
    LET lower == Lower(OutlineContent)
        true == {j \in 1..5 : \E w \in ConditionalObjectives[j].signal :
                                   Contains(lower, Str(w))}
    IN [i \in 1..Cardinality(true) |-> ConditionalObjectives[Nth(true, i)].objective]

\* C27: the objectives are the 4 baseline objectives in their order, then the
\* conditional objectives of the true signals in their order, then one objective
\* for each of the first 3 key topics, cut after the 8th entry; no entry occurs
\* twice and there are 4 to 8 entries.
C27_ObjectivesInOrder ==
    Outlined =>
        LET topics == [j \in 1..Clamp(Len(KeyTopics), 0, 3) |->
                          Fmt("Master the concepts and applications of {topic}",
                              <<KeyTopics[j]>>)]
            all == BaselineObjectives \o SignalledObjectives \o topics
        IN /\ Objectives = SubSeq(all, 1, Clamp(Len(all), 0, 8))
           /\ SubSeq(Objectives, 1, 4) = BaselineObjectives
           /\ Len(Objectives) \in 4..8
           /\ \A i, j \in 1..Len(Objectives) : i # j => Objectives[i] # Objectives[j]

\* An outline with three true signals and ten key topics: of its ten objectives
\* the first eight are kept, the last of them for the first key topic.
C27_Witness ==
    /\ Outlined
    /\ Len(SignalledObjectives) = 3
    /\ Len(KeyTopics) = 10
    /\ Len(Objectives) = 8
    /\ Objectives[8] = Fmt("Master the concepts and applications of {topic}", <<KeyTopics[1]>>)

\* The fields of a completed AnalysisState that C28 names.
Outcome(state) ==
    [status |-> state.status, progress |-> state.progress, results |-> state.results,
     overall_score |-> state.overall_score, all_content |-> state.all_content]

\* The state of session s is completed, and this step neither accepts a start
\* request for s nor removes its state.
StaysCompleted(s) ==
    /\ s \in DOMAIN analysis_progress
    /\ analysis_progress[s].status = "completed"
    /\ s \in DOMAIN analysis_progress'
    /\ launched'[s] = launched[s]

\* C28: once the state of a session is completed, its status, progress,
\* results, overall score and aggregated text stay as they are until a start
\* request is accepted for the session or the session is cleaned up: no run
\* started before writes to it.
C28_CompletedIsStable ==
    [][\A s \in Sessions :
          StaysCompleted(s) =>
             /\ analysis_progress'[s].status = "completed"
             /\ Outcome(analysis_progress'[s]) = Outcome(analysis_progress[s])]_vars

\* C28 where no other run of the session is active when the state is completed.
C28_StableWithoutOtherRun ==
    [][\A s \in Sessions :
          (StaysCompleted(s) /\ ActiveRuns(s) = 0) =>
             /\ analysis_progress'[s].status = "completed"
             /\ Outcome(analysis_progress'[s]) = Outcome(analysis_progress[s])]_vars

\* A completed state next to a run of the session that is still active.
C28_RunOutlivesCompletion ==
    \E s \in DOMAIN analysis_progress :
       analysis_progress[s].status = "completed" /\ ActiveRuns(s) >= 1

\* A cleanup request for the uploaded session s has returned its
\* acknowledgement: the folder of s is gone (only a cleanup removes it, and
\* no upload generates the identifier again) and no cleanup of s is under way.
Acknowledged(s) == s \in DOMAIN issued /\ s \notin DOMAIN folder /\ s \notin cleaning

\* C29: once a cleanup of a session has been acknowledged the session has no
\* store entry, and get-progress for it answers NotFound, whatever start
\* requests and runs were under way when the cleanup returned.
C29_CleanedUpStaysUnknown ==
    \A s \in Sessions :
       Acknowledged(s) =>
          /\ s \notin DOMAIN analysis_progress
          /\ (reply.op = "progress" /\ reply.sid = s) => reply.code = 404

\* C29 for the runs: the store entry of a session whose cleanup has been
\* acknowledged is created by nothing but a start request that had passed the
\* folder test before the cleanup removed the folder.
C29_OnlyStartRecreates ==
    [][\A s \in Sessions :
          (Acknowledged(s) /\ s \notin DOMAIN analysis_progress
              /\ s \in DOMAIN analysis_progress')
          => (analyzing[s] = "status_ok" /\ launched'[s] = launched[s] + 1)]_vars

\* A session whose cleanup has been acknowledged and that has a store entry, of
\* which get-progress has returned a snapshot.
C29_StateAfterCleanup ==
    \E s \in Sessions :
       /\ Acknowledged(s)
       /\ s \in DOMAIN analysis_progress
       /\ reply.op = "progress" /\ reply.sid = s /\ reply.code = 200

\* A cleanup of the uploaded session s has begun at some time: its folder is
\* gone, for good.
CleanupSeen(s) == s \in DOMAIN issued /\ s \notin DOMAIN folder

\* C30: with runs scheduled fairly and extractions that return or raise, a
\* session whose status is starting or processing (as every accepted start
\* request leaves it) comes to status completed or error, unless the session
\* is cleaned up.
C30_RunsReachTerminalStatus ==
    \A s \in OneSession :
       (StatusOf(analysis_progress, s) \in {"starting", "processing"})
          ~> (StatusOf(analysis_progress, s) \in {"completed", "error"} \/ CleanupSeen(s))

\* A session that was not cleaned up, after two accepted start requests whose
\* runs overlapped: both runs are over and the status is completed.
C30_Witness ==
    \E s \in OneSession :
       /\ s \in DOMAIN folder /\ ~CleanupSeen(s)
       /\ launched[s] = 2
       /\ ActiveRuns(s) = 0
       /\ StatusOf(analysis_progress, s) = "completed"
       /\ Len(analysis_progress[s].results) = 1

\* The names of the files the pipeline writes into a session folder itself: the
\* WAV files of the conversions. No upload of the audio sessions carries one.
ConvertedNames ==
    {ConvertedName(f) : f \in {"talk.mp3", "talk_converted.wav",
                               "talk_converted_converted.wav"}}

\* The files the runs of a session in progress have listed.
Enumerated(s) == UNION {Names(t.files) : t \in ThreadsOf(s)}

\* The files the runs of a session have processed: those of the results the
\* runs in progress hold and of the results stored for the session.
Processed(s) ==
    UNION {{t.file_results[j].filename : j \in 1..Len(t.file_results)} : t \in ThreadsOf(s)}
    \cup (IF s \in DOMAIN analysis_progress
          THEN {analysis_progress[s].results[j].filename :
                   j \in 1..Len(analysis_progress[s].results)}
          ELSE {})

\* C31: across the runs of a session, re-runs after a failed transcription
\* included, no file the pipeline created itself (the converted WAV) is listed
\* or processed as a file of the session.
C31_OnlyUploadsEnumerated ==
    \A s \in OneSession :
       /\ Enumerated(s) \cap ConvertedNames = {}
       /\ Processed(s) \cap ConvertedNames = {}

\* A start request accepted for a session no run of which is in progress any
\* more, while the WAV of an earlier run is still in the folder.
C31_ConvertedLeftForRerun ==
    \E s \in OneSession :
       /\ reply = Response("analyze", s, 200,
                           [session_id |-> s, message |-> <<"Analysis started">>,
                            status |-> "processing"])
       /\ launched[s] = 2
       /\ ActiveRuns(s) = 1
       /\ s \in DOMAIN folder
       /\ "talk_converted.wav" \in Names(folder[s])

\* A session completed with a result for the converted WAV next to the one for
\* the upload.
C31_ConvertedProcessed ==
    \E s \in OneSession :
       /\ StatusOf(analysis_progress, s) = "completed"
       /\ Len(analysis_progress[s].results) = 2
       /\ analysis_progress[s].results[1].filename = "talk.mp3"
       /\ analysis_progress[s].results[2].filename = "talk_converted.wav"
       /\ analysis_progress[s].results[2].file_type = "audio"

\* The modules of the outline are those of the one-module-per-topic branch: one
\* for each of the first 6 key topics, named after it.
ModulePerTopic ==
    /\ Len(Modules) = Clamp(Len(KeyTopics), 0, 6)
    /\ \A i \in 1..Len(Modules) :
          Modules[i].title = Fmt("Module {i + 1}: {topic.capitalize()}",
                                 <<Dec(i), Capitalize(KeyTopics[i])>>)

\* C32: for every content, title and notes the key topics of the outline are at
\* least 3 after supplementation and deduplication, and the modules are those
\* of the one-module-per-topic branch.
C32_AtLeastThreeTopics ==
    Outlined => (Len(KeyTopics) >= 3 /\ ModulePerTopic)

\* C32 for the titles that do not repeat a word.
C32_ThreeUnlessRepeated ==
    (Outlined /\ ~TitleRepeatsWord) => (Len(KeyTopics) >= 3 /\ ModulePerTopic)

\* An outline of fewer than 3 key topics, its modules those of the other
\* branch: none of them named after a topic.
C32_SectionBranchTaken ==
    /\ Outlined
    /\ Len(KeyTopics) < 3
    /\ Len(Modules) >= 3
    /\ \A i \in 1..Len(Modules) :
          Modules[i].title.template # "Module {i + 1}: {topic.capitalize()}"

====
